---- MODULE Spec2Model ----
(***************************************************************************)
(* Model of the filename classifier, the group-label formatter and the     *)
(* sort policy of PowerPointGenerator (src/image_uploader.py), with the    *)
(* group-edit rule of the GUI (src/gui_app.py).                            *)
(*                                                                         *)
(* Python strings are TLA+ strings (sequences of characters): Len, SubSeq  *)
(* and \o act on them.  Python's None is the string None, which holds      *)
(* characters ("<", ">") that no modelled input holds.                     *)
(***************************************************************************)
EXTENDS Integers, Sequences, FiniteSets, TLC

VARIABLES
    filename,       \* the filename handed to extract_identifier_and_number
    extracted,      \* its result (numerical_prefix, identifier, full_match)
    pc,             \* "input" before the call of a pure function, "done" after it
    entry,          \* the identifier and numerical_prefix of one catalogue entry
    label,          \* the group label that format_group_label gave for it
    images,         \* ImageIndex.images
    listing,        \* what get_all_images returned last
    num_images,     \* the number handed to calculate_grid_layout
    layout,         \* its result (rows, cols)
    cell,           \* the arguments of one computation of image dimensions
    dimensions,     \* its result (img_width, img_height)
    group,          \* the group handed to add_group_slide: its label and images
    layout_profiles,    \* PowerPointGenerator.layout_profiles
    canvas_regions,     \* the regions on the canvas of the layout designer
    selected_group,     \* the group chosen in the layout designer
    slides          \* the slides that add_group_slide added for the group

pptVars ==
    <<num_images, layout, cell, dimensions, group, layout_profiles, canvas_regions,
      selected_group,
      slides>>

vars == <<filename, extracted, pc, entry, label, images, listing, pptVars>>

None == "<None>"

(***************************************************************************)
(* Characters and the character classes of Python's re module, restricted  *)
(* to ASCII.                                                               *)
(***************************************************************************)
At(s, i) == SubSeq(s, i, i)

LowerOf ==
    [c \in {"A","B","C","D","E","F","G","H","I","J","K","L","M","N","O","P","Q",
            "R","S","T","U","V","W","X","Y","Z"} |->
        CASE c = "A" -> "a" [] c = "B" -> "b" [] c = "C" -> "c" [] c = "D" -> "d"
          [] c = "E" -> "e" [] c = "F" -> "f" [] c = "G" -> "g" [] c = "H" -> "h"
          [] c = "I" -> "i" [] c = "J" -> "j" [] c = "K" -> "k" [] c = "L" -> "l"
          [] c = "M" -> "m" [] c = "N" -> "n" [] c = "O" -> "o" [] c = "P" -> "p"
          [] c = "Q" -> "q" [] c = "R" -> "r" [] c = "S" -> "s" [] c = "T" -> "t"
          [] c = "U" -> "u" [] c = "V" -> "v" [] c = "W" -> "w" [] c = "X" -> "x"
          [] c = "Y" -> "y" [] c = "Z" -> "z"]

\* str.lower() of one character
LowerChar(c) == IF c \in DOMAIN LowerOf THEN LowerOf[c] ELSE c

Digits == {"0","1","2","3","4","5","6","7","8","9"}
LowerLetters == {LowerOf[c] : c \in DOMAIN LowerOf}
\* \s  (the only white space of the modelled alphabet is the blank)
White == {" "}
\* [\s_\-] and [\s\-_] and [_\s\-]
Separators == White \cup {"_", "-"}
\* \w
WordChars == LowerLetters \cup Digits \cup {"_"}
\* [\s_\-\(\d]
FollowChars == Separators \cup {"("} \cup Digits

RECURSIVE Lower(_)
\* str.lower()
Lower(s) == IF s = "" THEN "" ELSE LowerChar(At(s, 1)) \o Lower(SubSeq(s, 2, Len(s)))

(***************************************************************************)
(* Regular expressions as trees, matched as Python's backtracking matcher  *)
(* matches them: Match(r, s, i) is the sequence of the ways r matches s    *)
(* from position i, in the order the matcher tries them (greedy            *)
(* repetitions longest first, lazy ones shortest first, alternatives left  *)
(* to right).  A way is [e |-> position after the match, gs, ge |-> span   *)
(* of capture group 1, or 0].  All patterns are compiled with              *)
(* re.IGNORECASE or hold no letters, so characters compare in lower case.  *)
(***************************************************************************)
Chr(set)      == [t |-> "chr", set |-> set]
Lit(w)        == [t |-> "lit", w |-> Lower(w)]
Bol           == [t |-> "bol"]
Eol           == [t |-> "eol"]
Cat(xs)       == [t |-> "cat", xs |-> xs]
Alt(xs)       == [t |-> "alt", xs |-> xs]
Grp(x)        == [t |-> "grp", x |-> x]
\* x{lo,hi}; hi = -1 is unbounded
Rep(x, lo, hi) == [t |-> "rep", x |-> x, lo |-> lo, hi |-> hi, lazy |-> FALSE]
LazyRep(x, lo, hi) == [t |-> "rep", x |-> x, lo |-> lo, hi |-> hi, lazy |-> TRUE]
Star(x)       == Rep(x, 0, -1)
Plus(x)       == Rep(x, 1, -1)
Opt(x)        == Rep(x, 0, 1)
LazyStar(x)   == LazyRep(x, 0, -1)

Way(e) == [e |-> e, gs |-> 0, ge |-> 0]

\* the ways of a concatenation: way a, then way b from where a ended
Join(a, b) == [e |-> b.e,
               gs |-> IF b.gs # 0 THEN b.gs ELSE a.gs,
               ge |-> IF b.gs # 0 THEN b.ge ELSE a.ge]

RECURSIVE Match(_, _, _), MatchCat(_, _, _, _), MatchAlt(_, _, _, _),
          MatchRep(_, _, _, _), Continue(_, _, _, _, _), ContinueRep(_, _, _, _, _)

Match(r, s, i) ==
    CASE r.t = "chr" ->
            IF i <= Len(s) /\ LowerChar(At(s, i)) \in r.set THEN <<Way(i + 1)>> ELSE <<>>
      [] r.t = "lit" ->
            IF /\ i + Len(r.w) - 1 <= Len(s)
               /\ \A k \in 1..Len(r.w) : LowerChar(At(s, i + k - 1)) = At(r.w, k)
            THEN <<Way(i + Len(r.w))>> ELSE <<>>
      [] r.t = "bol" -> IF i = 1 THEN <<Way(i)>> ELSE <<>>
      [] r.t = "eol" -> IF i = Len(s) + 1 THEN <<Way(i)>> ELSE <<>>
      [] r.t = "cat" -> MatchCat(r.xs, 1, s, <<Way(i)>>)
      [] r.t = "alt" -> MatchAlt(r.xs, 1, s, i)
      [] r.t = "grp" -> LET inner == Match(r.x, s, i)
                        IN  [k \in 1..Len(inner) |->
                                [e |-> inner[k].e, gs |-> i, ge |-> inner[k].e]]
      [] r.t = "rep" -> MatchRep(r, s, i, 0)

\* ways[k..] each continued by r
Continue(r, s, ways, k, dummy) ==
    IF k > Len(ways) THEN <<>>
    ELSE LET next == Match(r, s, ways[k].e)
         IN  [j \in 1..Len(next) |-> Join(ways[k], next[j])]
                \o Continue(r, s, ways, k + 1, dummy)

MatchCat(xs, k, s, ways) ==
    IF k > Len(xs) \/ ways = <<>> THEN ways
    ELSE MatchCat(xs, k + 1, s, Continue(xs[k], s, ways, 1, 0))

MatchAlt(xs, k, s, i) ==
    IF k > Len(xs) THEN <<>> ELSE Match(xs[k], s, i) \o MatchAlt(xs, k + 1, s, i)

\* ways[k..] (one more iteration of r.x each) continued by further iterations
ContinueRep(r, s, ways, k, n) ==
    IF k > Len(ways) THEN <<>>
    ELSE LET next == MatchRep(r, s, ways[k].e, n)
         IN  [j \in 1..Len(next) |-> Join(ways[k], next[j])]
                \o ContinueRep(r, s, ways, k + 1, n)

\* n iterations of r.x are done and the matcher stands at i
MatchRep(r, s, i, n) ==
    LET stop == IF n >= r.lo THEN <<Way(i)>> ELSE <<>>
        once == IF r.hi # -1 /\ n >= r.hi THEN <<>> ELSE Match(r.x, s, i)
        more == ContinueRep(r, s, once, 1, n + 1)
    IN  IF r.lazy THEN stop \o more ELSE more \o stop

RECURSIVE SearchFrom(_, _, _)
\* pattern.search(s): the first way of the leftmost position that has one
SearchFrom(r, s, i) ==
    IF i > Len(s) + 1 THEN [found |-> FALSE]
    ELSE LET ways == Match(r, s, i)
         IN  IF ways # <<>>
             THEN [found |-> TRUE, start |-> i, e |-> ways[1].e,
                   gs |-> ways[1].gs, ge |-> ways[1].ge]
             ELSE SearchFrom(r, s, i + 1)

Search(r, s) == SearchFrom(r, s, 1)

\* match.group(0) and match.group(1)
Group0(m, s) == SubSeq(s, m.start, m.e - 1)
Group1(m, s) == SubSeq(s, m.gs, m.ge - 1)

(***************************************************************************)
(* The identifier taxonomy.                                                *)
(***************************************************************************)
GROUPABLE_IDENTIFIERS ==
    <<"UD", "LD", "MD", "UVD", "PDBSE", "PDBSE1", "BSE", "SE", "ABF", "ADF">>
NON_GROUPABLE_IDENTIFIERS == <<"Spectrum", "Spectra", "Map", "Maps", "Electron Image">>
SPECTRUM_IDENTIFIERS == <<"Spectrum", "Spectra">>
ALL_IDENTIFIERS == GROUPABLE_IDENTIFIERS \o NON_GROUPABLE_IDENTIFIERS

Range(f) == {f[k] : k \in DOMAIN f}
\* the literal lists ['Map', 'Maps', 'Electron Image'] and ['Spectrum', 'Spectra']
MapLike == {"Map", "Maps", "Electron Image"}
SpectrumLike == {"Spectrum", "Spectra"}

RECURSIVE InsertByLength(_, _)
\* w goes after every element that is at least as long: equal lengths keep
\* the order of the list, longer ones come first
InsertByLength(w, sorted) ==
    IF sorted = <<>> THEN <<w>>
    ELSE IF Len(Head(sorted)) >= Len(w)
         THEN <<Head(sorted)>> \o InsertByLength(w, Tail(sorted))
         ELSE <<w>> \o sorted

RECURSIVE SortedByLength(_, _)
\* sorted(xs, key=len, reverse=True): a stable sort, longest first
SortedByLength(xs, k) ==
    IF k = 0 THEN <<>> ELSE InsertByLength(xs[k], SortedByLength(xs, k - 1))

\* the identifiers in the order of the taxonomy, not sorted by length
identifiers_as_listed == ALL_IDENTIFIERS

sorted_identifiers == SortedByLength(ALL_IDENTIFIERS, Len(ALL_IDENTIFIERS))

(***************************************************************************)
(* The patterns of extract_identifier_and_number.                          *)
(***************************************************************************)
Digit == Chr(Digits)
Sep   == Chr(Separators)

\* (?:[\s_\-\(\d]|[a-z]+\d*|$)
follow == Alt(<<Chr(FollowChars), Cat(<<Plus(Chr(LowerLetters)), Star(Digit)>>), Eol>>)

\* (?:_\d+)?
underscore_suffix == Opt(Cat(<<Chr({"_"}), Plus(Digit)>>))

\* (?:^|[\s_\-])(ID)(?:[\s_\-\(\d]|[a-z]+\d*|$)
pattern(identifier) ==
    Cat(<<Alt(<<Bol, Sep>>), Grp(Lit(identifier)), follow>>)

\* (\d{4})[\s\-_]+\d*[\s\-_]*ID(?:[\s_\-\(\d]|[a-z]+\d*|$)
num_pattern(identifier) ==
    Cat(<<Grp(Rep(Digit, 4, 4)), Plus(Sep), Star(Digit), Star(Sep),
          Lit(identifier), follow>>)

\* (\d+)[\s\-_]+ID(?:[\s_\-\(\d]|[a-z]+\d*|$)
num_pattern2(identifier) ==
    Cat(<<Grp(Plus(Digit)), Plus(Sep), Lit(identifier), follow>>)

\* ID[\s\-_]+(\d+)
num_pattern_after(identifier) ==
    Cat(<<Lit(identifier), Plus(Sep), Grp(Plus(Digit))>>)

\* ID(?:\s+\w+)*?[_\s\-]+(\d+)(?:_\d+)?(?:\s|$)
after_id_pattern(identifier) ==
    Cat(<<Lit(identifier),
          LazyStar(Cat(<<Plus(Chr(White)), Plus(Chr(WordChars))>>)),
          Plus(Sep), Grp(Plus(Digit)), underscore_suffix,
          Alt(<<Chr(White), Eol>>)>>)

\* [_\s\-](\d+)(?:_\d+)?\s*$
fallback_pattern ==
    Cat(<<Sep, Grp(Plus(Digit)), underscore_suffix, Star(Chr(White)), Eol>>)

\* [_\s\-]?(\d+)(?:_\d+)?\s*$
trailing_num_pattern ==
    Cat(<<Opt(Sep), Grp(Plus(Digit)), underscore_suffix, Star(Chr(White)), Eol>>)

(***************************************************************************)
(* String helpers of the Python library.                                   *)
(***************************************************************************)
RECURSIVE LastIndexOf(_, _, _)
\* s.rfind(c) as a 1-based position, 0 when c does not occur
LastIndexOf(s, c, i) ==
    IF i = 0 THEN 0 ELSE IF At(s, i) = c THEN i ELSE LastIndexOf(s, c, i - 1)

\* os.path.splitext(p)[0]: the extension starts at the last dot, when that
\* dot follows the last "/" and a character that is not a dot stands between
splitext_root(p) ==
    LET sepIndex == LastIndexOf(p, "/", Len(p))
        dotIndex == LastIndexOf(p, ".", Len(p))
    IN  IF /\ dotIndex > sepIndex
           /\ \E k \in (sepIndex + 1)..(dotIndex - 1) : At(p, k) # "."
        THEN SubSeq(p, 1, dotIndex - 1)
        ELSE p

RECURSIVE zfill(_, _)
\* str.zfill(width) of a string of digits
zfill(s, width) == IF Len(s) >= width THEN s ELSE zfill("0" \o s, width)

RECURSIVE strip(_)
\* str.strip()
strip(s) ==
    IF s = "" THEN s
    ELSE IF At(s, 1) \in White THEN strip(SubSeq(s, 2, Len(s)))
    ELSE IF At(s, Len(s)) \in White THEN strip(SubSeq(s, 1, Len(s) - 1))
    ELSE s

(***************************************************************************)
(* extract_identifier_and_number                                           *)
(***************************************************************************)
Triple(numerical_prefix, identifier, full_match) ==
    [numerical_prefix |-> numerical_prefix, identifier |-> identifier,
     full_match |-> full_match]

\* the groupable branch with the short digit run tried before the 4 digits
extract_groupable_short_first(name, identifier, found_identifier) ==
    LET num_match == Search(num_pattern(identifier), name)
        num_match2 == Search(num_pattern2(identifier), name)
        num_match_after == Search(num_pattern_after(identifier), name)
    IN  IF num_match2.found
        THEN Triple(zfill(Group1(num_match2, name), 4), identifier,
                    strip(Group0(num_match2, name)))
        ELSE IF num_match.found
        THEN Triple(Group1(num_match, name), identifier, strip(Group0(num_match, name)))
        ELSE IF num_match_after.found
        THEN Triple(zfill(Group1(num_match_after, name), 4), identifier,
                    Group0(num_match_after, name))
        ELSE Triple(None, identifier, found_identifier)

\* the branch of a groupable identifier
extract_groupable(name, identifier, found_identifier) ==
    LET num_match == Search(num_pattern(identifier), name)
        num_match2 == Search(num_pattern2(identifier), name)
        num_match_after == Search(num_pattern_after(identifier), name)
    IN  IF num_match.found
        THEN Triple(Group1(num_match, name), identifier, strip(Group0(num_match, name)))
        ELSE IF num_match2.found
        THEN Triple(zfill(Group1(num_match2, name), 4), identifier,
                    strip(Group0(num_match2, name)))
        ELSE IF num_match_after.found
        THEN Triple(zfill(Group1(num_match_after, name), 4), identifier,
                    Group0(num_match_after, name))
        ELSE Triple(None, identifier, found_identifier)

\* the non-groupable branch returning the identifier as the filename spells it
extract_non_groupable_as_written(name, identifier, found_identifier) ==
    IF identifier \in MapLike
    THEN LET after_match == Search(after_id_pattern(identifier), name)
             fallback_match == Search(fallback_pattern, name)
         IN  IF after_match.found
             THEN Triple(zfill(Group1(after_match, name), 4), found_identifier,
                         found_identifier)
             ELSE IF fallback_match.found
             THEN Triple(zfill(Group1(fallback_match, name), 4), found_identifier,
                         found_identifier)
             ELSE Triple(None, found_identifier, found_identifier)
    ELSE IF identifier \in SpectrumLike
    THEN LET trailing_match == Search(trailing_num_pattern, name)
         IN  IF trailing_match.found
             THEN Triple(zfill(Group1(trailing_match, name), 4), found_identifier,
                         found_identifier)
             ELSE Triple(None, found_identifier, found_identifier)
    ELSE Triple(None, found_identifier, found_identifier)

\* the branch of a non-groupable identifier
extract_non_groupable(name, identifier, found_identifier) ==
    IF identifier \in MapLike
    THEN LET after_match == Search(after_id_pattern(identifier), name)
             fallback_match == Search(fallback_pattern, name)
         IN  IF after_match.found
             THEN Triple(zfill(Group1(after_match, name), 4), identifier, found_identifier)
             ELSE IF fallback_match.found
             THEN Triple(zfill(Group1(fallback_match, name), 4), identifier,
                         found_identifier)
             ELSE Triple(None, identifier, found_identifier)
    ELSE IF identifier \in SpectrumLike
    THEN LET trailing_match == Search(trailing_num_pattern, name)
         IN  IF trailing_match.found
             THEN Triple(zfill(Group1(trailing_match, name), 4), identifier,
                         found_identifier)
             ELSE Triple(None, identifier, found_identifier)
    ELSE Triple(None, identifier, found_identifier)

RECURSIVE extract_from(_, _, _)
\* the loop over sorted_identifiers, from its k-th element
extract_from(name, identifiers, k) ==
    IF k > Len(identifiers) THEN Triple(None, None, None)
    ELSE LET identifier == identifiers[k]
             match == Search(pattern(identifier), name)
         IN  IF match.found
             THEN IF identifier \in Range(GROUPABLE_IDENTIFIERS)
                  THEN extract_groupable(name, identifier, Group1(match, name))
                  ELSE extract_non_groupable(name, identifier, Group1(match, name))
             ELSE extract_from(name, identifiers, k + 1)

extract_identifier_and_number(fname) ==
    extract_from(splitext_root(fname), sorted_identifiers, 1)

(***************************************************************************)
(* The filenames of the model: up to MaxFragments fragments in a row.      *)
(* The fragments hold identifiers in both casings, one identifier that is  *)
(* a prefix of another, digit runs of fewer than, exactly and more than    *)
(* four digits, separators, a word, a suffix and an extension.             *)
(***************************************************************************)
MaxFragments == 3

Fragments ==
    {"UD", "PDBSE1", "Map", "spectrum", "0003_", "2_", " 12345", "_1_2",
     " x", "mod2", ".tif"}

RECURSIVE FilenamesOf(_)
FilenamesOf(k) ==
    IF k = 0 THEN {""}
    ELSE FilenamesOf(k - 1) \cup {n \o f : n \in FilenamesOf(k - 1), f \in Fragments}

Filenames == FilenamesOf(MaxFragments)

NoEntry == [identifier |-> None, numerical_prefix |-> None]

\* the generator and the designer when no slide is being made
IdlePpt ==
    /\ num_images = 0
    /\ layout = None
    /\ cell = None
    /\ dimensions = None
    /\ group = None
    /\ layout_profiles = <<>>
    /\ canvas_regions = <<>>
    /\ selected_group = ""
    /\ slides = None

InitExtract ==
    /\ filename \in Filenames
    /\ extracted = Triple(None, None, None)
    /\ pc = "input"
    /\ entry = NoEntry
    /\ label = None
    /\ images = <<>>
    /\ listing = <<>>
    /\ IdlePpt

\* one call of extract_identifier_and_number
Extract ==
    /\ pc = "input"
    /\ extracted' = extract_identifier_and_number(filename)
    /\ pc' = "done"
    /\ UNCHANGED <<filename, entry, label, images, listing, pptVars>>

NextExtract == Extract

SpecExtract == InitExtract /\ [][NextExtract]_vars

(***************************************************************************)
(* format_group_label                                                      *)
(***************************************************************************)
DigitValue ==
    [c \in Digits |->
        CASE c = "0" -> 0 [] c = "1" -> 1 [] c = "2" -> 2 [] c = "3" -> 3
          [] c = "4" -> 4 [] c = "5" -> 5 [] c = "6" -> 6 [] c = "7" -> 7
          [] c = "8" -> 8 [] c = "9" -> 9]

DigitChar == <<"1", "2", "3", "4", "5", "6", "7", "8", "9">>

\* str.isdigit()
isdigit(s) == s # "" /\ \A k \in 1..Len(s) : At(s, k) \in Digits

RECURSIVE int(_)
\* int(s) of a string of digits
int(s) ==
    IF Len(s) = 1 THEN DigitValue[s]
    ELSE int(SubSeq(s, 1, Len(s) - 1)) * 10 + DigitValue[At(s, Len(s))]

RECURSIVE str(_)
\* str(n), and the {n} of an f-string, of a natural number
str(n) ==
    IF n < 10 THEN (IF n = 0 THEN "0" ELSE DigitChar[n])
    ELSE str(n \div 10) \o (IF n % 10 = 0 THEN "0" ELSE DigitChar[n % 10])

\* the label with the 4 digits put after the prefix as they are
format_group_label_unconverted(numerical_prefix, identifier) ==
    IF numerical_prefix = None \/ numerical_prefix = "" THEN ""
    ELSE IF isdigit(numerical_prefix) /\ Len(numerical_prefix) = 4
    THEN IF identifier \in SpectrumLike
         THEN "SPEC" \o numerical_prefix
         ELSE IF identifier \in MapLike
         THEN "MAP" \o numerical_prefix
         ELSE numerical_prefix
    ELSE numerical_prefix

RECURSIVE strip_zeros(_)
\* s.strip('0')
strip_zeros(s) ==
    IF s = "" THEN ""
    ELSE IF At(s, 1) = "0" THEN strip_zeros(SubSeq(s, 2, Len(s)))
    ELSE IF At(s, Len(s)) = "0" THEN strip_zeros(SubSeq(s, 1, Len(s) - 1))
    ELSE s

\* the label with the zeros stripped from the 4 digits instead of int()
format_group_label_stripped(numerical_prefix, identifier) ==
    IF numerical_prefix = None \/ numerical_prefix = "" THEN ""
    ELSE IF isdigit(numerical_prefix) /\ Len(numerical_prefix) = 4
    THEN IF identifier \in SpectrumLike
         THEN "SPEC" \o strip_zeros(numerical_prefix)
         ELSE IF identifier \in MapLike
         THEN "MAP" \o strip_zeros(numerical_prefix)
         ELSE numerical_prefix
    ELSE numerical_prefix

format_group_label(numerical_prefix, identifier) ==
    IF numerical_prefix = None \/ numerical_prefix = "" THEN ""
    ELSE IF isdigit(numerical_prefix) /\ Len(numerical_prefix) = 4
    THEN IF identifier \in SpectrumLike
         THEN "SPEC" \o str(int(numerical_prefix))
         ELSE IF identifier \in MapLike
         THEN "MAP" \o str(int(numerical_prefix))
         ELSE numerical_prefix
    ELSE numerical_prefix

(***************************************************************************)
(* The inputs of format_group_label as a pure function: null, the empty    *)
(* string, every string of up to MaxGroupDigits digits over GroupDigits,   *)
(* and custom labels; every identifier, null, and a string outside the     *)
(* taxonomy.                                                               *)
(***************************************************************************)
MaxGroupDigits == 5

GroupDigits == {"0", "2"}

RECURSIVE DigitStrings(_)
\* the strings of 1..k digits over GroupDigits
DigitStrings(k) ==
    IF k = 0 THEN {}
    ELSE GroupDigits \cup DigitStrings(k - 1)
            \cup {s \o d : s \in DigitStrings(k - 1), d \in GroupDigits}

CustomLabels == {"MyGroup", "Sample-A", "Test_1", "02x", "MAP", "spec"}

GroupNumbers == {None, ""} \cup DigitStrings(MaxGroupDigits) \cup CustomLabels

InitFormat ==
    /\ entry \in [identifier : Range(ALL_IDENTIFIERS) \cup {None, "N/A"},
                  numerical_prefix : GroupNumbers]
    /\ label = None
    /\ pc = "input"
    /\ filename = ""
    /\ extracted = Triple(None, None, None)
    /\ images = <<>>
    /\ listing = <<>>
    /\ IdlePpt

\* one call of format_group_label
Format ==
    /\ pc = "input"
    /\ label' = format_group_label(entry.numerical_prefix, entry.identifier)
    /\ pc' = "done"
    /\ UNCHANGED <<filename, extracted, entry, images, listing, pptVars>>

NextFormat == Format

SpecFormat == InitFormat /\ [][NextFormat]_vars

(***************************************************************************)
(* The group and type editors of the GUI, on one selected catalogue entry. *)
(* Both end with refresh_image_list, which shows the entry's label.        *)
(***************************************************************************)
\* re.match(pattern, s): the pattern from the start of s
ReMatch(r, s) ==
    LET ways == Match(r, s, 1)
    IN  IF ways # <<>>
        THEN [found |-> TRUE, start |-> 1, e |-> ways[1].e,
              gs |-> ways[1].gs, ge |-> ways[1].ge]
        ELSE [found |-> FALSE]

\* (?:MAP|SPEC|map|spec)(\d+)$
formatted_pattern ==
    Cat(<<Alt(<<Lit("MAP"), Lit("SPEC"), Lit("map"), Lit("spec")>>),
          Grp(Plus(Digit)), Eol>>)

MaxLabelLength == 50

\* what new_group_of gives when apply_changes shows the error and returns
Rejected == "<Rejected>"

\* the group edit storing the digits of a formatted label without padding
new_group_of_unpadded(typed) ==
    LET new_group_input == strip(typed)
        formatted_match == ReMatch(formatted_pattern, new_group_input)
    IN  IF new_group_input = "" THEN None
        ELSE IF formatted_match.found
        THEN Group1(formatted_match, new_group_input)
        ELSE IF isdigit(new_group_input) THEN zfill(new_group_input, 4)
        ELSE IF Len(new_group_input) > MaxLabelLength THEN Rejected
        ELSE new_group_input

\* the group that edit_group.apply_changes stores for what the user typed
new_group_of(typed) ==
    LET new_group_input == strip(typed)
        formatted_match == ReMatch(formatted_pattern, new_group_input)
    IN  IF new_group_input = "" THEN None
        ELSE IF formatted_match.found
        THEN zfill(Group1(formatted_match, new_group_input), 4)
        ELSE IF isdigit(new_group_input) THEN zfill(new_group_input, 4)
        ELSE IF Len(new_group_input) > MaxLabelLength THEN Rejected
        ELSE new_group_input

\* what the user may type in the group editor: blank, numbers, formatted
\* labels in both casings, custom labels, one of them too long
TooLong == "Sample-0123456789-0123456789-0123456789-0123456789-A"

TypedGroups ==
    {"", " "} \cup DigitStrings(MaxGroupDigits)
        \cup {p \o d : p \in {"MAP", "spec"}, d \in DigitStrings(MaxGroupDigits - 1)}
        \cup CustomLabels \cup {" MyGroup ", "MAP 2", "MAPS2", TooLong}

\* the files whose classification starts an entry
EntryFiles ==
    {"x.tif", "UD.tif", "0002 UD.tif", "UD 20000.tif", "Map 2.tif", "spectrum 20.tif"}

\* the Group column of refresh_image_list: the label, or 'N/A' for none
group_label(numerical_prefix, identifier) ==
    LET formatted == format_group_label(numerical_prefix, identifier)
    IN  IF formatted = "" THEN "N/A" ELSE formatted

InitEdit ==
    /\ \E f \in EntryFiles :
          LET e == extract_identifier_and_number(f)
          IN  /\ entry = [identifier |-> e.identifier,
                          numerical_prefix |-> e.numerical_prefix]
              /\ label = group_label(e.numerical_prefix, e.identifier)
    /\ pc = "input"
    /\ filename = ""
    /\ extracted = Triple(None, None, None)
    /\ images = <<>>
    /\ listing = <<>>
    /\ IdlePpt

\* new_group_of over everything the user may type
NewGroupOf == [typed \in TypedGroups |-> new_group_of(typed)]

\* edit_group.apply_changes with the text typed
EditGroup(typed) ==
    LET new_group == NewGroupOf[typed]
    IN  /\ new_group # Rejected
        /\ entry' = [entry EXCEPT !.numerical_prefix = new_group]
        /\ label' = group_label(new_group, entry.identifier)
        /\ UNCHANGED <<filename, extracted, pc, images, listing, pptVars>>

\* edit_group.apply_changes when the label is refused: nothing changes
EditGroupRejected(typed) ==
    /\ NewGroupOf[typed] = Rejected
    /\ UNCHANGED vars

\* edit_type.apply_changes with the type chosen
EditType(chosen) ==
    LET new_type == strip(chosen)
    IN  /\ new_type # ""
        /\ new_type \in Range(ALL_IDENTIFIERS)
        /\ entry' = [entry EXCEPT !.identifier = new_type]
        /\ label' = group_label(entry.numerical_prefix, new_type)
        /\ UNCHANGED <<filename, extracted, pc, images, listing, pptVars>>

NextEdit ==
    \/ \E typed \in TypedGroups : EditGroup(typed)
    \/ \E typed \in TypedGroups : EditGroupRejected(typed)
    \/ \E chosen \in Range(ALL_IDENTIFIERS) : EditType(chosen)

SpecEdit == InitEdit /\ [][NextEdit]_vars

(***************************************************************************)
(* get_sort_key and the comparison of its tuples.                          *)
(***************************************************************************)
\* the characters of file names and group labels, by rising code point
Ascii == " -.0123456789ABCDEFGHIJKLMNOPQRSTUVWXYZ_abcdefghijklmnopqrstuvwxyz"

\* ord(c): 32 for the space, 45 "-", 46 ".", 48.. digits, 65.. upper case,
\* 95 "_", 97.. lower case
ord ==
    [c \in {At(Ascii, i) : i \in 1..Len(Ascii)} |->
        LET i == CHOOSE i \in 1..Len(Ascii) : At(Ascii, i) = c
        IN  IF i = 1 THEN 32
            ELSE IF i <= 3 THEN 43 + i
            ELSE IF i <= 13 THEN 44 + i
            ELSE IF i <= 39 THEN 51 + i
            ELSE IF i = 40 THEN 95
            ELSE 56 + i]

RECURSIVE StrLess(_, _)
\* a < b of two Python strings: by code point, a proper prefix first
StrLess(a, b) ==
    IF b = "" THEN FALSE
    ELSE IF a = "" THEN TRUE
    ELSE IF At(a, 1) = At(b, 1)
         THEN StrLess(SubSeq(a, 2, Len(a)), SubSeq(b, 2, Len(b)))
         ELSE ord[At(a, 1)] < ord[At(b, 1)]

\* a < b of two sort keys (int, str, int, str): Python's tuple comparison
TupleLess(a, b) ==
    IF a[1] # b[1] THEN a[1] < b[1]
    ELSE IF a[2] # b[2] THEN StrLess(a[2], b[2])
    ELSE IF a[3] # b[3] THEN a[3] < b[3]
    ELSE StrLess(a[4], b[4])

\* enumerate(xs): the 0-based position of x in xs
PositionIn(xs, x) == (CHOOSE k \in 1..Len(xs) : xs[k] = x) - 1

\* identifier_priority.get(identifier, 999)
identifier_priority(identifier) ==
    IF identifier \in Range(NON_GROUPABLE_IDENTIFIERS)
    THEN 100 + PositionIn(NON_GROUPABLE_IDENTIFIERS, identifier)
    ELSE IF identifier \in Range(GROUPABLE_IDENTIFIERS)
    THEN PositionIn(GROUPABLE_IDENTIFIERS, identifier)
    ELSE 999

\* the sort key without the category in front
get_sort_key_by_group(img_info) ==
    LET numerical_prefix == img_info.metadata.numerical_prefix
        identifier == img_info.metadata.identifier
    IN  <<0,
          IF numerical_prefix = None \/ numerical_prefix = "" THEN "zzzzz"
          ELSE numerical_prefix,
          identifier_priority(identifier),
          Lower(img_info.filename)>>

get_sort_key(img_info) ==
    LET numerical_prefix == img_info.metadata.numerical_prefix
        identifier == img_info.metadata.identifier
        category ==
            IF identifier \in Range(GROUPABLE_IDENTIFIERS) THEN 0
            ELSE IF identifier \in MapLike THEN 1
            ELSE IF identifier \in SpectrumLike THEN 2
            ELSE 3
    IN  <<category,
          IF numerical_prefix = None \/ numerical_prefix = "" THEN "zzzzz"
          ELSE numerical_prefix,
          identifier_priority(identifier),
          Lower(img_info.filename)>>

RECURSIVE InsertByKey(_, _)
\* x goes after every element whose key is not greater than its own
InsertByKey(x, sorted) ==
    IF sorted = <<>> THEN <<x>>
    ELSE IF TupleLess(get_sort_key(x), get_sort_key(Head(sorted)))
         THEN <<x>> \o sorted
         ELSE <<Head(sorted)>> \o InsertByKey(x, Tail(sorted))

RECURSIVE SortedByKey(_, _)
\* sorted(xs, key=ImageIdentifier.get_sort_key): a stable sort
SortedByKey(xs, k) ==
    IF k = 0 THEN <<>> ELSE InsertByKey(xs[k], SortedByKey(xs, k - 1))

(***************************************************************************)
(* ImageIndex: add_image and get_all_images.  A file is a name and a       *)
(* content; the SHA256 hash of a file stands for its content.  The files   *)
(* exist and are readable images.                                          *)
(***************************************************************************)
MaxImages == 2
NumContents == 2

FileNames ==
    {"0002 UD.tif", "UD 20000.tif", "UD 2222.tif", "UD.tif", "Map 2.tif",
     "spectrum 2.tif", "x.tif"}

\* extract_identifier_and_number over the names of the files
ClassifiedAs == [n \in FileNames |-> extract_identifier_and_number(n)]

InitCatalogue ==
    /\ images = <<>>
    /\ listing = <<>>
    /\ pc = "input"
    /\ filename = ""
    /\ extracted = Triple(None, None, None)
    /\ entry = NoEntry
    /\ label = None
    /\ IdlePpt

\* add_image of a file not indexed yet
AddImage(name, content) ==
    /\ Len(images) < MaxImages
    /\ \A k \in 1..Len(images) : images[k].hash # content
    /\ images' = Append(images,
          [id |-> Len(images) + 1,
           filename |-> name,
           hash |-> content,
           metadata |-> [identifier |-> ClassifiedAs[name].identifier,
                         numerical_prefix |-> ClassifiedAs[name].numerical_prefix,
                         identifier_match |-> ClassifiedAs[name].full_match]])
    /\ UNCHANGED <<filename, extracted, pc, entry, label, listing, pptVars>>

\* add_image of a file whose hash is indexed: the entry found is returned
AddImageIndexed(name, content) ==
    /\ \E k \in 1..Len(images) : images[k].hash = content
    /\ UNCHANGED vars

get_all_images == SortedByKey(images, Len(images))

GetAllImages ==
    /\ listing' = get_all_images
    /\ UNCHANGED <<filename, extracted, pc, entry, label, images, pptVars>>

NextCatalogue ==
    \/ \E name \in FileNames, content \in 1..NumContents : AddImage(name, content)
    \/ \E name \in FileNames, content \in 1..NumContents : AddImageIndexed(name, content)
    \/ GetAllImages

SpecCatalogue == InitCatalogue /\ [][NextCatalogue]_vars

(***************************************************************************)
(* The catalogue as the GUI drives it: upload_images and the group editor  *)
(* on the selected images, both ending with refresh_image_list, which      *)
(* lists get_all_images.                                                   *)
(***************************************************************************)
RegroupFiles == {"UD.tif", "0002 UD.tif", "Map 2.tif"}

\* what the user types in the group editor of the catalogue
RegroupTyped == {"", "7", "Sample-A", "zzzzzz"}

\* new_group_of over RegroupTyped
RegroupedAs == [typed \in RegroupTyped |-> new_group_of(typed)]

\* upload_images of one file: add_image, then refresh_image_list
UploadImage(name, content) ==
    /\ Len(images) < MaxImages
    /\ \A k \in 1..Len(images) : images[k].hash # content
    /\ images' = Append(images,
          [id |-> Len(images) + 1,
           filename |-> name,
           hash |-> content,
           metadata |-> [identifier |-> ClassifiedAs[name].identifier,
                         numerical_prefix |-> ClassifiedAs[name].numerical_prefix,
                         identifier_match |-> ClassifiedAs[name].full_match]])
    /\ listing' = SortedByKey(images', Len(images'))
    /\ UNCHANGED <<filename, extracted, pc, entry, label, pptVars>>

\* edit_group.apply_changes on the selected images of the catalogue
RegroupSelected(selected_ids, typed) ==
    LET new_group == RegroupedAs[typed]
    IN  /\ selected_ids # {}
        /\ new_group # Rejected
        /\ images' = [k \in 1..Len(images) |->
              IF images[k].id \in selected_ids
              THEN [images[k] EXCEPT !.metadata.numerical_prefix = new_group]
              ELSE images[k]]
        /\ listing' = SortedByKey(images', Len(images'))
        /\ UNCHANGED <<filename, extracted, pc, entry, label, pptVars>>

NextRegroup ==
    \/ \E name \in RegroupFiles, content \in 1..NumContents : UploadImage(name, content)
    \/ \E selected_ids \in SUBSET {images[k].id : k \in 1..Len(images)},
          typed \in RegroupTyped : RegroupSelected(selected_ids, typed)

SpecRegroup == InitCatalogue /\ [][NextRegroup]_vars

(***************************************************************************)
(* ImageIndex as a whole: add_image, get_image and remove_image, with      *)
(* reindex_images and the type editor of the GUI working on the same       *)
(* index.  entry is what add_image returned last, filename the name of the *)
(* file it was given, pc the call made last.                               *)
(***************************************************************************)
IndexFiles == {"UD.tif", "x.tif"}

\* what the type editor may be left with: nothing, a member of the taxonomy
\* with blanks around, and a type outside of it
ChosenTypes == {"", " Map ", "HAADF"}

\* the first position of imgs that satisfies Test, 0 when there is none
FirstIndex(imgs, Test(_)) ==
    IF \E k \in 1..Len(imgs) : Test(imgs[k])
    THEN CHOOSE k \in 1..Len(imgs) :
            Test(imgs[k]) /\ \A j \in 1..(k - 1) : ~Test(imgs[j])
    ELSE 0

\* add_image that appends the entry without looking for the hash
add_image_unchecked(imgs, name, content) ==
    LET image_entry ==
            [id |-> Len(imgs) + 1,
             filename |-> name,
             hash |-> content,
             metadata |-> [identifier |-> ClassifiedAs[name].identifier,
                           numerical_prefix |-> ClassifiedAs[name].numerical_prefix,
                           identifier_match |-> ClassifiedAs[name].full_match]]
    IN  [images |-> Append(imgs, image_entry), returned |-> image_entry]

\* add_image: the index afterwards and the entry returned
add_image(imgs, name, content) ==
    LET found == FirstIndex(imgs, LAMBDA img : img.hash = content)
        image_entry ==
            [id |-> Len(imgs) + 1,
             filename |-> name,
             hash |-> content,
             metadata |-> [identifier |-> ClassifiedAs[name].identifier,
                           numerical_prefix |-> ClassifiedAs[name].numerical_prefix,
                           identifier_match |-> ClassifiedAs[name].full_match]]
    IN  IF found # 0
        THEN [images |-> imgs, returned |-> imgs[found]]
        ELSE [images |-> Append(imgs, image_entry), returned |-> image_entry]

\* get_image: the position of the first entry with the id, 0 for None
get_image(imgs, image_id) == FirstIndex(imgs, LAMBDA img : img.id = image_id)

\* remove_image: the first entry with the id is popped
remove_image(imgs, image_id) ==
    LET i == get_image(imgs, image_id)
    IN  IF i = 0 THEN imgs
        ELSE SubSeq(imgs, 1, i - 1) \o SubSeq(imgs, i + 1, Len(imgs))

\* reindex_images: every entry is classified again by its filename
reindex_images(imgs) ==
    [k \in 1..Len(imgs) |->
        [imgs[k] EXCEPT
            !.metadata = [identifier |-> ClassifiedAs[imgs[k].filename].identifier,
                          numerical_prefix |-> ClassifiedAs[imgs[k].filename].numerical_prefix,
                          identifier_match |-> ClassifiedAs[imgs[k].filename].full_match]]]

\* the entries that get_image finds for the selected ids are given new_type
retyped(imgs, selected_ids, new_type) ==
    LET found == {get_image(imgs, img_id) : img_id \in selected_ids}
    IN  [k \in 1..Len(imgs) |->
            IF k \in found THEN [imgs[k] EXCEPT !.metadata.identifier = new_type]
            ELSE imgs[k]]

\* the type editor storing what it is left with, unchecked
apply_changes_unchecked(imgs, selected_ids, chosen) ==
    [images |-> retyped(imgs, selected_ids, strip(chosen)), refreshed |-> TRUE]

\* edit_type.apply_changes: the index afterwards, and whether the list of
\* the main window was refreshed
apply_changes(imgs, selected_ids, chosen) ==
    LET new_type == strip(chosen)
    IN  IF new_type = "" THEN [images |-> imgs, refreshed |-> FALSE]
        ELSE IF new_type \notin Range(ALL_IDENTIFIERS)
        THEN [images |-> imgs, refreshed |-> FALSE]
        ELSE [images |-> retyped(imgs, selected_ids, new_type), refreshed |-> TRUE]

IndexedIds == {images[k].id : k \in 1..Len(images)}
IndexedHashes == {images[k].hash : k \in 1..Len(images)}

\* add_image of a file; the index grows to MaxImages entries at most
IndexAdd(name, content) ==
    /\ Len(images) < MaxImages \/ content \in IndexedHashes
    /\ images' = add_image(images, name, content).images
    /\ entry' = add_image(images, name, content).returned
    /\ filename' = name
    /\ pc' = "add_image"
    /\ UNCHANGED <<extracted, label, listing, pptVars>>

\* remove_image of an id, in the index or not
IndexRemove(image_id) ==
    /\ images' = remove_image(images, image_id)
    /\ pc' = "remove_image"
    /\ UNCHANGED <<filename, extracted, entry, label, listing, pptVars>>

NextIndex ==
    \/ \E name \in IndexFiles, content \in 1..NumContents : IndexAdd(name, content)
    \/ \E image_id \in 1..MaxImages : IndexRemove(image_id)

SpecIndex == InitCatalogue /\ [][NextIndex]_vars

(***************************************************************************)
(* The identifiers of the index under add_image, reindex_images.py and the *)
(* type editor of the GUI.  listing is the list of the main window as      *)
(* refresh_image_list filled it last.                                      *)
(***************************************************************************)
\* add_image of a file, whatever it returns
AddIndexFile(name, content) ==
    /\ Len(images) < MaxImages \/ content \in IndexedHashes
    /\ images' = add_image(images, name, content).images
    /\ pc' = "add_image"
    /\ UNCHANGED <<filename, extracted, entry, label, listing, pptVars>>

\* one run of reindex_images.py
Reindex ==
    /\ images' = reindex_images(images)
    /\ pc' = "reindex_images"
    /\ UNCHANGED <<filename, extracted, entry, label, listing, pptVars>>

\* edit_type.apply_changes on the selected images
ApplyType(selected_ids, chosen) ==
    /\ selected_ids # {}
    /\ images' = apply_changes(images, selected_ids, chosen).images
    /\ listing' = IF apply_changes(images, selected_ids, chosen).refreshed
                  THEN SortedByKey(images', Len(images'))
                  ELSE listing
    /\ pc' = "edit_type"
    /\ UNCHANGED <<filename, extracted, entry, label, pptVars>>

NextRetype ==
    \/ \E name \in IndexFiles, content \in 1..NumContents : AddIndexFile(name, content)
    \/ Reindex
    \/ \E selected_ids \in SUBSET IndexedIds, chosen \in ChosenTypes :
          ApplyType(selected_ids, chosen)

SpecRetype == InitCatalogue /\ [][NextRetype]_vars

(***************************************************************************)
(* PowerPointGenerator.  Lengths are in units of 1/20 inch (45720 EMU), in *)
(* which every length of __init__ is a whole number.  Python's floats are  *)
(* fractions n/d in lowest terms with d > 0: the arithmetic is exact.      *)
(***************************************************************************)
Abs(k) == IF k < 0 THEN -k ELSE k

RECURSIVE GCD(_, _)
GCD(a, b) == IF b = 0 THEN a ELSE GCD(b, a % b)

\* the float n/d
Frac(n, d) ==
    LET g == GCD(Abs(n), Abs(d))
        s == IF d < 0 THEN -1 ELSE 1
    IN  [n |-> (s * n) \div g, d |-> (s * d) \div g]

\* the float of an int
Float(k) == [n |-> k, d |-> 1]

\* the sums, products and comparisons cancel common factors first, so that
\* the numbers in between stay small
FAdd(a, b) ==
    LET g == GCD(a.d, b.d)
    IN  Frac(a.n * (b.d \div g) + b.n * (a.d \div g), (a.d \div g) * b.d)
FSub(a, b) == FAdd(a, [n |-> -b.n, d |-> b.d])
FMul(a, b) ==
    LET g1 == GCD(Abs(a.n), b.d)
        g2 == GCD(Abs(b.n), a.d)
    IN  Frac((a.n \div g1) * (b.n \div g2), (a.d \div g2) * (b.d \div g1))
\* a / b, for b that is not zero
FDiv(a, b) == FMul(a, Frac(b.d, b.n))
FLess(a, b) ==
    LET g == GCD(a.d, b.d)
    IN  a.n * (b.d \div g) < b.n * (a.d \div g)
FLeq(a, b) == ~FLess(b, a)

\* Inches(10), Inches(7.5)
slide_width == 200
slide_height == 150
\* Inches(0.75), Inches(0.5), Inches(0.5), Inches(0.5)
margin_top == 15
margin_bottom == 10
margin_left == 10
margin_right == 10
\* Inches(0.4), Inches(0.1)
label_height == 8
label_spacing == 2

available_width == slide_width - margin_left - margin_right
available_height == slide_height - margin_top - margin_bottom

\* math.ceil(math.sqrt(n))
ceil_sqrt(n) == CHOOSE c \in 0..n : c * c >= n /\ (c = 0 \/ (c - 1) * (c - 1) < n)

\* the integer nearest to math.sqrt(n)
round_sqrt(n) ==
    CHOOSE c \in 0..n : (2 * c - 1) * (2 * c - 1) <= 4 * n /\ 4 * n < (2 * c + 1) * (2 * c + 1)

\* math.ceil(n / c)
ceil_div(n, c) == (n + c - 1) \div c

\* the grid with the columns rounded to the nearest integer
calculate_grid_layout_rounded(n) ==
    IF n = 0 THEN <<0, 0>>
    ELSE IF n = 1 THEN <<1, 1>>
    ELSE IF n = 2 THEN <<1, 2>>
    ELSE IF n <= 4 THEN <<2, 2>>
    ELSE IF n <= 6 THEN <<2, 3>>
    ELSE IF n <= 9 THEN <<3, 3>>
    ELSE IF n <= 12 THEN <<3, 4>>
    ELSE IF n <= 16 THEN <<4, 4>>
    ELSE IF n <= 20 THEN <<4, 5>>
    ELSE LET cols == round_sqrt(n)
             rows == ceil_div(n, cols)
         IN  <<rows, cols>>

\* the grid with the rows rounded down
calculate_grid_layout_floor(n) ==
    IF n = 0 THEN <<0, 0>>
    ELSE IF n = 1 THEN <<1, 1>>
    ELSE IF n = 2 THEN <<1, 2>>
    ELSE IF n <= 4 THEN <<2, 2>>
    ELSE IF n <= 6 THEN <<2, 3>>
    ELSE IF n <= 9 THEN <<3, 3>>
    ELSE IF n <= 12 THEN <<3, 4>>
    ELSE IF n <= 16 THEN <<4, 4>>
    ELSE IF n <= 20 THEN <<4, 5>>
    ELSE LET cols == ceil_sqrt(n)
             rows == n \div cols
         IN  <<rows, cols>>

\* (rows, cols) for n images
calculate_grid_layout(n) ==
    IF n = 0 THEN <<0, 0>>
    ELSE IF n = 1 THEN <<1, 1>>
    ELSE IF n = 2 THEN <<1, 2>>
    ELSE IF n <= 4 THEN <<2, 2>>
    ELSE IF n <= 6 THEN <<2, 3>>
    ELSE IF n <= 9 THEN <<3, 3>>
    ELSE IF n <= 12 THEN <<3, 4>>
    ELSE IF n <= 16 THEN <<4, 4>>
    ELSE IF n <= 20 THEN <<4, 5>>
    ELSE LET cols == ceil_sqrt(n)
             rows == ceil_div(n, cols)
         IN  <<rows, cols>>

\* the catalogue and the editors when no call of theirs is modelled
IdleCatalogue ==
    /\ filename = ""
    /\ extracted = Triple(None, None, None)
    /\ entry = NoEntry
    /\ label = None
    /\ images = <<>>
    /\ listing = <<>>

MaxGridImages == 60

InitGrid ==
    /\ num_images \in 0..MaxGridImages
    /\ layout = None
    /\ pc = "input"
    /\ cell = None
    /\ dimensions = None
    /\ group = None
    /\ layout_profiles = <<>>
    /\ canvas_regions = <<>>
    /\ selected_group = ""
    /\ slides = None
    /\ IdleCatalogue

\* one call of calculate_grid_layout
PlanGrid ==
    /\ pc = "input"
    /\ layout' = calculate_grid_layout(num_images)
    /\ pc' = "done"
    /\ UNCHANGED <<filename, extracted, entry, label, images, listing, num_images,
                   cell, dimensions, group, layout_profiles, canvas_regions,
                   selected_group, slides>>

NextGrid == PlanGrid

SpecGrid == InitGrid /\ [][NextGrid]_vars

\* 0.95 and 0.9
F095 == Frac(19, 20)
F09 == Frac(9, 10)

\* label_height + label_spacing as a float
label_reservation == Float(label_height + label_spacing)

\* what a call gives when it raises ZeroDivisionError
ZeroDivisionError == <<"ZeroDivisionError">>

\* the dimensions with the width kept when the height is clamped
calculate_image_dimensions_unscaled(rows, cols, image_aspect_ratio) ==
    LET cell_width == FDiv(Float(available_width), Float(cols))
        cell_height == FDiv(Float(available_height - (label_height + label_spacing) * rows),
                            Float(rows))
        max_img_height == FSub(cell_height, label_reservation)
    IN  IF FLess(image_aspect_ratio, FDiv(cell_width, cell_height))
        THEN <<FMul(max_img_height, image_aspect_ratio), max_img_height>>
        ELSE LET img_width == FMul(cell_width, F095)
                 img_height == FDiv(img_width, image_aspect_ratio)
             IN  IF FLess(max_img_height, img_height)
                 THEN <<img_width, max_img_height>>
                 ELSE <<img_width, img_height>>

\* calculate_image_dimensions: <<img_width, img_height>>
calculate_image_dimensions(rows, cols, image_aspect_ratio) ==
    LET cell_width == FDiv(Float(available_width), Float(cols))
        \* (available_height - (label_height + label_spacing) * rows) / rows
        cell_height == FDiv(Float(available_height - (label_height + label_spacing) * rows),
                            Float(rows))
        \* cell_height - label_height - label_spacing
        max_img_height == FSub(cell_height, label_reservation)
    IN  IF FLess(image_aspect_ratio, FDiv(cell_width, cell_height))
        THEN <<FMul(max_img_height, image_aspect_ratio), max_img_height>>
        ELSE LET img_width == FMul(cell_width, F095)
                 img_height == FDiv(img_width, image_aspect_ratio)
             IN  IF FLess(max_img_height, img_height)
                 THEN <<FMul(max_img_height, image_aspect_ratio), max_img_height>>
                 ELSE <<img_width, img_height>>

\* the fit of one image in a cell of a region (add_visual_custom_slide):
\* <<img_width, img_height>>, or ZeroDivisionError
region_image_dimensions(cell_width, cell_height, img_aspect_ratio) ==
    LET available_cell_height == FSub(cell_height, label_reservation)
    IN  IF available_cell_height.n = 0
        THEN ZeroDivisionError
        ELSE IF FLess(img_aspect_ratio, FDiv(cell_width, available_cell_height))
        THEN <<FMul(available_cell_height, img_aspect_ratio), available_cell_height>>
        ELSE LET img_width == FMul(cell_width, F095)
                 img_height == FDiv(img_width, img_aspect_ratio)
             IN  IF FLess(available_cell_height, img_height)
                 THEN <<FMul(available_cell_height, img_aspect_ratio), available_cell_height>>
                 ELSE <<img_width, img_height>>

\* the largest number of rows and of columns of the cells that are fitted
MaxGridSide == 5

\* width / height of the images that are fitted
AspectRatios == {Frac(1, 3), Frac(1, 1), Frac(2, 1), Frac(4, 1)}

\* the extent of a region as a part of the available width and height: a
\* drawn region is 20 canvas pixels (of 640 and of 360) or more in each
\* direction
RegionWidths == {Frac(1, 2), Frac(1, 1)}
RegionHeights == {Frac(1, 18), Frac(2, 25), Frac(1, 2), Frac(1, 1)}

\* the cells: of the whole slide (add_standard_slide) and of a region
Cells ==
    [kind : {"grid"}, rows : 1..MaxGridSide, cols : 1..MaxGridSide,
     width : {Frac(1, 1)}, height : {Frac(1, 1)}, aspect_ratio : AspectRatios]
    \cup
    [kind : {"visual"}, rows : 1..MaxGridSide, cols : 1..MaxGridSide,
     width : RegionWidths, height : RegionHeights, aspect_ratio : AspectRatios]

\* the cell as the caller computes it: <<cell_width, cell_height>>
cell_size(c) ==
    <<FDiv(FMul(c.width, Float(available_width)), Float(c.cols)),
      FDiv(FMul(c.height, Float(available_height)), Float(c.rows))>>

InitDims ==
    /\ cell \in Cells
    /\ dimensions = None
    /\ pc = "input"
    /\ num_images = 0
    /\ layout = None
    /\ group = None
    /\ layout_profiles = <<>>
    /\ canvas_regions = <<>>
    /\ selected_group = ""
    /\ slides = None
    /\ IdleCatalogue

\* the fit of one image of add_standard_slide
FitGridCell ==
    /\ pc = "input"
    /\ cell.kind = "grid"
    /\ dimensions' = calculate_image_dimensions(cell.rows, cell.cols, cell.aspect_ratio)
    /\ pc' = "done"
    /\ UNCHANGED <<filename, extracted, entry, label, images, listing, num_images,
                   layout, cell, group, layout_profiles, canvas_regions,
                   selected_group, slides>>

\* the fit of one image of add_visual_custom_slide
FitRegionCell ==
    /\ pc = "input"
    /\ cell.kind = "visual"
    /\ dimensions' = region_image_dimensions(cell_size(cell)[1], cell_size(cell)[2],
                                             cell.aspect_ratio)
    /\ pc' = "done"
    /\ UNCHANGED <<filename, extracted, entry, label, images, listing, num_images,
                   layout, cell, group, layout_profiles, canvas_regions,
                   selected_group, slides>>

NextDims == FitGridCell \/ FitRegionCell

SpecDims == InitDims /\ [][NextDims]_vars

(***************************************************************************)
(* The slides of one group.  An entry of the group is [id, identifier,     *)
(* width, height]; a slide is [layout, placed], where layout names the     *)
(* method that drew it and placed lists its pictures in the order they     *)
(* were added, each [id, area, x, y, width, height].                       *)
(***************************************************************************)
Min(a, b) == IF a < b THEN a ELSE b
Max(a, b) == IF a < b THEN b ELSE a

RECURSIVE Flatten(_)
\* the sequences of a sequence, joined in order
Flatten(ss) == IF ss = <<>> THEN <<>> ELSE Head(ss) \o Flatten(Tail(ss))

\* img['width'] / img['height'] if img['height'] > 0 else default
aspect_ratio_of(img, default) ==
    IF img.height > 0 THEN Frac(img.width, img.height) ELSE default

\* identifier == 'Spectrum' or identifier in SPECTRUM_IDENTIFIERS
is_spectrum(img) ==
    img.identifier = "Spectrum" \/ img.identifier \in Range(SPECTRUM_IDENTIFIERS)

is_other(img) == ~is_spectrum(img)

Placed(img, area, x, y, img_width, img_height) ==
    [id |-> img.id, area |-> area, x |-> x, y |-> y,
     width |-> img_width, height |-> img_height]

\* the fit of a slice: <<img_width, img_height>> of an image first given
\* the width full_width and then clamped to the slice less its label
slice_image_dimensions(full_width, slice_height, img_aspect_ratio) ==
    LET available_slice_height == FSub(slice_height, label_reservation)
        img_width == full_width
        img_height == FDiv(img_width, img_aspect_ratio)
    IN  IF FLess(available_slice_height, img_height)
        THEN <<FMul(available_slice_height, img_aspect_ratio), available_slice_height>>
        ELSE <<img_width, img_height>>

\* add_standard_slide: one slide with every image in a cell of the grid
add_standard_slide(group_images) ==
    IF group_images = <<>> THEN <<>>
    ELSE
    LET grid == calculate_grid_layout(Len(group_images))
        rows == grid[1]
        cols == grid[2]
        cell_width == FDiv(Float(available_width), Float(cols))
        cell_height == FDiv(Float(available_height), Float(rows))
        place(k) ==
            LET img == group_images[k]
                row == (k - 1) \div cols
                col == (k - 1) % cols
                dims == calculate_image_dimensions(rows, cols, aspect_ratio_of(img, Float(1)))
                x == FAdd(FAdd(Float(margin_left), FMul(Float(col), cell_width)),
                          FDiv(FSub(cell_width, dims[1]), Float(2)))
                y == FAdd(FAdd(Float(margin_top), FMul(Float(row), cell_height)),
                          FDiv(FSub(FSub(cell_height, dims[2]), label_reservation), Float(2)))
            IN  Placed(img, "cell", x, y, dims[1], dims[2])
    IN  <<[layout |-> "grid", placed |-> [k \in 1..Len(group_images) |-> place(k)]]>>

\* the slide of one batch with slices of a third of the height whatever the
\* size of the batch
spectrum_batch_slide_thirds(batch) ==
    LET num_spectra == Len(batch)
        slice_height == FDiv(Float(available_height), Float(3))
        place(k) ==
            LET img == batch[k]
                y_pos == FAdd(Float(margin_top), FMul(Float(k - 1), slice_height))
                dims == slice_image_dimensions(FMul(Float(available_width), F095), slice_height,
                                               aspect_ratio_of(img, Float(4)))
                x_pos == FAdd(Float(margin_left),
                              FDiv(FSub(Float(available_width), dims[1]), Float(2)))
            IN  Placed(img, "slice", x_pos, y_pos, dims[1], dims[2])
    IN  [layout |-> "horizontal", placed |-> [k \in 1..num_spectra |-> place(k)]]

\* the slide of one batch of add_spectrum_slide
spectrum_batch_slide(batch) ==
    LET num_spectra == Len(batch)
        slice_height == FDiv(Float(available_height), Float(num_spectra))
        place(k) ==
            LET img == batch[k]
                y_pos == FAdd(Float(margin_top), FMul(Float(k - 1), slice_height))
                dims == slice_image_dimensions(FMul(Float(available_width), F095), slice_height,
                                               aspect_ratio_of(img, Float(4)))
                x_pos == FAdd(Float(margin_left),
                              FDiv(FSub(Float(available_width), dims[1]), Float(2)))
            IN  Placed(img, "slice", x_pos, y_pos, dims[1], dims[2])
    IN  [layout |-> "horizontal", placed |-> [k \in 1..num_spectra |-> place(k)]]

\* add_spectrum_slide: range(0, len(images), 3)
add_spectrum_slide(group_images) ==
    [b \in 1..ceil_div(Len(group_images), 3) |->
        spectrum_batch_slide(SubSeq(group_images, 3 * (b - 1) + 1,
                                    Min(3 * b, Len(group_images))))]

\* the slide of one pair of batches of add_mixed_slide
mixed_batch_slide(spec_batch, other_batch) ==
    LET left_width == FDiv(Float(available_width), Float(3))
        right_width == FDiv(Float(available_width * 2), Float(3))
        num_other == Len(other_batch)
        num_spectra == Len(spec_batch)
        place_other(k) ==
            LET img == other_batch[k]
                other_slice_height == FDiv(Float(available_height), Float(num_other))
                y_pos == FAdd(Float(margin_top), FMul(Float(k - 1), other_slice_height))
                dims == slice_image_dimensions(FMul(left_width, F09), other_slice_height,
                                               aspect_ratio_of(img, Float(1)))
                x_pos == FAdd(Float(margin_left), FDiv(FSub(left_width, dims[1]), Float(2)))
            IN  Placed(img, "left", x_pos, y_pos, dims[1], dims[2])
        place_spectrum(k) ==
            LET img == spec_batch[k]
                spec_slice_height == FDiv(Float(available_height), Float(num_spectra))
                right_x_start == FAdd(Float(margin_left), left_width)
                y_pos == FAdd(Float(margin_top), FMul(Float(k - 1), spec_slice_height))
                dims == slice_image_dimensions(FMul(right_width, F095), spec_slice_height,
                                               aspect_ratio_of(img, Float(4)))
                x_pos == FAdd(right_x_start, FDiv(FSub(right_width, dims[1]), Float(2)))
            IN  Placed(img, "right", x_pos, y_pos, dims[1], dims[2])
    IN  [layout |-> "mixed",
         placed |-> [k \in 1..num_other |-> place_other(k)]
                    \o [k \in 1..num_spectra |-> place_spectrum(k)]]

\* add_mixed_slide with as many slides as the spectrum entries need
add_mixed_slide_by_spectrum(spectrum_images, other_images) ==
    LET spectrum_batch_size == 3
        other_batch_size == 2
        max_slides == ceil_div(Len(spectrum_images), spectrum_batch_size)
    IN  [s \in 1..max_slides |->
            mixed_batch_slide(
                SubSeq(spectrum_images, spectrum_batch_size * (s - 1) + 1,
                       Min(spectrum_batch_size * s, Len(spectrum_images))),
                SubSeq(other_images, other_batch_size * (s - 1) + 1,
                       Min(other_batch_size * s, Len(other_images))))]

\* add_mixed_slide: slices [start : start + size] of both lists, slide by slide
add_mixed_slide(spectrum_images, other_images) ==
    LET spectrum_batch_size == 3
        other_batch_size == 2
        max_slides == Max(ceil_div(Len(spectrum_images), spectrum_batch_size),
                          ceil_div(Len(other_images), other_batch_size))
    IN  [s \in 1..max_slides |->
            mixed_batch_slide(
                SubSeq(spectrum_images, spectrum_batch_size * (s - 1) + 1,
                       Min(spectrum_batch_size * s, Len(spectrum_images))),
                SubSeq(other_images, other_batch_size * (s - 1) + 1,
                       Min(other_batch_size * s, Len(other_images))))]

\* images_by_identifier.get(region['identifier'], [])
region_images_of(region, group_images) ==
    SelectSeq(group_images, LAMBDA img : img.identifier = region.identifier)

\* cell_width and cell_height of a region that holds n images
region_cell(region, n) ==
    LET grid == calculate_grid_layout(n)
        region_width == FMul(FSub(region.x2, region.x1), Float(available_width))
        region_height == FMul(FSub(region.y2, region.y1), Float(available_height))
    IN  <<FDiv(region_width, Float(grid[2])), FDiv(region_height, Float(grid[1]))>>

\* the division of line 263 raises for the images of this region
region_raises(region, group_images) ==
    LET region_images == region_images_of(region, group_images)
    IN  /\ region_images # <<>>
        /\ FSub(region_cell(region, Len(region_images))[2], label_reservation).n = 0

\* the pictures add_visual_custom_slide adds for one region
region_placed(region, group_images) ==
    LET region_images == region_images_of(region, group_images)
        cols == calculate_grid_layout(Len(region_images))[2]
        region_x == FAdd(Float(margin_left), FMul(region.x1, Float(available_width)))
        region_y == FAdd(Float(margin_top), FMul(region.y1, Float(available_height)))
        cell_width == region_cell(region, Len(region_images))[1]
        cell_height == region_cell(region, Len(region_images))[2]
        available_cell_height == FSub(cell_height, label_reservation)
        place(k) ==
            LET img == region_images[k]
                row == (k - 1) \div cols
                col == (k - 1) % cols
                dims == region_image_dimensions(cell_width, cell_height,
                                                aspect_ratio_of(img, Float(1)))
                x == FAdd(FAdd(region_x, FMul(Float(col), cell_width)),
                          FDiv(FSub(cell_width, dims[1]), Float(2)))
                y == FAdd(FAdd(region_y, FMul(Float(row), cell_height)),
                          FDiv(FSub(available_cell_height, dims[2]), Float(2)))
            IN  Placed(img, "region", x, y, dims[1], dims[2])
    IN  [k \in 1..Len(region_images) |-> place(k)]

\* add_visual_custom_slide raises ZeroDivisionError
visual_raises(group_images, profile) ==
    \E r \in 1..Len(profile.regions) : region_raises(profile.regions[r], group_images)

\* add_visual_custom_slide: the grid when the profile has no regions, else
\* one slide with the pictures of every region, region after region
add_visual_custom_slide(group_images, profile) ==
    IF profile.regions = <<>>
    THEN add_standard_slide(group_images)
    ELSE <<[layout |-> "visual",
            placed |-> Flatten([r \in 1..Len(profile.regions) |->
                                   region_placed(profile.regions[r], group_images)])]>>

\* what add_group_slide does to the presentation: the branch taken, whether
\* it raised, and the slides added
Composed(branch, slides_added) ==
    [branch |-> branch, raised |-> FALSE, slides |-> slides_added]

\* the default auto-detection of add_group_slide
auto_group_slide(group_images) ==
    LET spectrum_images == SelectSeq(group_images, is_spectrum)
        other_images == SelectSeq(group_images, is_other)
    IN  IF spectrum_images # <<>> /\ other_images # <<>>
        THEN Composed("mixed", add_mixed_slide(spectrum_images, other_images))
        ELSE IF spectrum_images # <<>>
        THEN Composed("horizontal", add_spectrum_slide(spectrum_images))
        ELSE Composed("grid", add_standard_slide(group_images))

\* the forced mixed layout of add_group_slide
forced_mixed_slide(group_images) ==
    LET n == Len(group_images)
        spectrum_found == SelectSeq(group_images, is_spectrum)
        other_found == SelectSeq(group_images, is_other)
        \* if not spectrum_images: images[:3], images[3:]
        spectrum_1 == IF spectrum_found = <<>> THEN SubSeq(group_images, 1, Min(3, n))
                      ELSE spectrum_found
        other_1 == IF spectrum_found = <<>> THEN SubSeq(group_images, 4, n) ELSE other_found
        \* if not other_images and len(images) > 3: images[-2:], images[:-2]
        retake == other_1 = <<>> /\ n > 3
        spectrum_images == IF retake THEN SubSeq(group_images, 1, n - 2) ELSE spectrum_1
        other_images == IF retake THEN SubSeq(group_images, n - 1, n) ELSE other_1
    IN  Composed("mixed", add_mixed_slide(spectrum_images, other_images))

\* add_group_slide with the profiles left unread
add_group_slide_unprofiled(group_key, group_images) ==
    IF group_images = <<>> THEN Composed(None, <<>>)
    ELSE auto_group_slide(group_images)

\* add_group_slide without the test for an empty group
add_group_slide_unguarded(group_key, group_images) ==
    IF group_key \in DOMAIN layout_profiles
    THEN LET profile == layout_profiles[group_key]
             layout_type == IF profile.type = None THEN "auto" ELSE profile.type
         IN  IF layout_type = "visual"
             THEN Composed("visual", add_visual_custom_slide(group_images, profile))
             ELSE IF layout_type = "grid"
             THEN Composed("grid", add_standard_slide(group_images))
             ELSE IF layout_type = "horizontal"
             THEN Composed("horizontal", add_spectrum_slide(group_images))
             ELSE IF layout_type = "mixed"
             THEN forced_mixed_slide(group_images)
             ELSE auto_group_slide(group_images)
    ELSE auto_group_slide(group_images)

\* add_group_slide
add_group_slide(group_key, group_images) ==
    IF group_images = <<>> THEN Composed(None, <<>>)
    ELSE IF group_key \in DOMAIN layout_profiles
    THEN LET profile == layout_profiles[group_key]
             \* profile.get('type', 'auto')
             layout_type == IF profile.type = None THEN "auto" ELSE profile.type
         IN  IF layout_type = "visual"
             THEN IF visual_raises(group_images, profile)
                  THEN [branch |-> "visual", raised |-> TRUE, slides |-> <<>>]
                  ELSE Composed("visual", add_visual_custom_slide(group_images, profile))
             ELSE IF layout_type = "grid"
             THEN Composed("grid", add_standard_slide(group_images))
             ELSE IF layout_type = "horizontal"
             THEN Composed("horizontal", add_spectrum_slide(group_images))
             ELSE IF layout_type = "mixed"
             THEN forced_mixed_slide(group_images)
             ELSE auto_group_slide(group_images)
    ELSE auto_group_slide(group_images)

\* the largest group that is composed
MaxGroup == 6

\* the identifiers of the entries of the groups: spectrum-like and not
GroupIdentifiers == {"Spectrum", "UD", "Map"}

\* width and height in pixels of the images of a group; (0, 0) has no
\* aspect ratio of its own and is given 1.0 or 4.0
ImageSizes == {<<400, 100>>, <<0, 0>>}

\* the label of the group that is composed, and one of another group
GroupLabel == "Sample-A"
OtherLabel == "0002"

\* the entries of a group, in catalogue order
GroupImages(identifiers, size) ==
    [k \in 1..Len(identifiers) |->
        [id |-> k, identifier |-> identifiers[k], width |-> size[1], height |-> size[2]]]

IdentifierLists(n) == UNION {[1..len -> GroupIdentifiers] : len \in 1..n}

Groups ==
    {[label |-> GroupLabel, images |-> GroupImages(identifiers, size)] :
        identifiers \in IdentifierLists(MaxGroup), size \in ImageSizes}

Region(identifier, x1, y1, x2, y2) ==
    [identifier |-> identifier, x1 |-> x1, y1 |-> y1, x2 |-> x2, y2 |-> y2]

\* a profile as a dictionary with the keys 'type' and 'regions'; None and
\* the empty list stand for a key that is not there
Profile(type, regions) == [type |-> type, regions |-> regions]

\* the left and the right half of the slide
HalvesRegions ==
    <<Region("Spectrum", Frac(0, 1), Frac(0, 1), Frac(1, 2), Frac(1, 1)),
      Region("UD", Frac(1, 2), Frac(0, 1), Frac(1, 1), Frac(1, 1))>>

\* the values layout_profiles is given before a presentation is generated
AssignedProfiles ==
    {(GroupLabel :> Profile(type, <<>>)) :
        type \in {"visual", "grid", "horizontal", "mixed", "auto", "custom", None}}
    \cup {GroupLabel :> Profile("visual", HalvesRegions),
          OtherLabel :> Profile("grid", <<>>)}

InitCompose ==
    /\ group \in Groups
    /\ layout_profiles = <<>>
    /\ slides = None
    /\ pc = "ready"
    /\ num_images = 0
    /\ layout = None
    /\ cell = None
    /\ dimensions = None
    /\ canvas_regions = <<>>
    /\ selected_group = ""
    /\ IdleCatalogue

\* generator.layout_profiles = ...
AssignProfiles(profiles) ==
    /\ pc = "ready"
    /\ layout_profiles = <<>>
    /\ layout_profiles' = profiles
    /\ UNCHANGED <<filename, extracted, pc, entry, label, images, listing, num_images,
                   layout, cell, dimensions, group, canvas_regions,
                   selected_group, slides>>

\* one call of add_group_slide, for the group
AddGroupSlide ==
    /\ pc = "ready"
    /\ slides' = add_group_slide(group.label, group.images)
    /\ pc' = "done"
    /\ UNCHANGED <<filename, extracted, entry, label, images, listing, num_images,
                   layout, cell, dimensions, group, layout_profiles, canvas_regions,
                   selected_group>>

NextCompose ==
    \/ \E profiles \in AssignedProfiles : AssignProfiles(profiles)
    \/ AddGroupSlide

SpecCompose == InitCompose /\ [][NextCompose]_vars

(***************************************************************************)
(* add_group_slide for small groups, the group without entries among them. *)
(***************************************************************************)
MaxSmallGroup == 2

EmptyGroup == [label |-> GroupLabel, images |-> <<>>]

SmallGroups ==
    {EmptyGroup} \cup
    {[label |-> GroupLabel, images |-> GroupImages(identifiers, size)] :
        identifiers \in IdentifierLists(MaxSmallGroup), size \in ImageSizes}

InitComposeSmall ==
    /\ group \in SmallGroups
    /\ layout_profiles = <<>>
    /\ slides = None
    /\ pc = "ready"
    /\ num_images = 0
    /\ layout = None
    /\ cell = None
    /\ dimensions = None
    /\ canvas_regions = <<>>
    /\ selected_group = ""
    /\ IdleCatalogue

SpecComposeSmall == InitComposeSmall /\ [][NextCompose]_vars

(***************************************************************************)
(* add_standard_slide on its own: a group of one to MaxGridImages images   *)
(* of one size, drawn on the grid of the default canvas.                   *)
(***************************************************************************)
\* width and height in pixels: wide, square, tall, and without a height
StandardSizes == {<<400, 100>>, <<100, 100>>, <<100, 300>>, <<0, 0>>}

\* a group of n images of one identifier and one size
UniformGroup(n, identifier, size) ==
    [label |-> GroupLabel,
     images |-> GroupImages([k \in 1..n |-> identifier], size)]

InitStandard ==
    /\ \E n \in 1..MaxGridImages, size \in StandardSizes :
          group = UniformGroup(n, "UD", size)
    /\ layout_profiles = <<>>
    /\ slides = None
    /\ pc = "ready"
    /\ num_images = 0
    /\ layout = None
    /\ cell = None
    /\ dimensions = None
    /\ canvas_regions = <<>>
    /\ selected_group = ""
    /\ IdleCatalogue

\* one call of add_standard_slide, for the group
AddStandardSlide ==
    /\ pc = "ready"
    /\ slides' = Composed("grid", add_standard_slide(group.images))
    /\ pc' = "done"
    /\ UNCHANGED <<filename, extracted, entry, label, images, listing, num_images,
                   layout, cell, dimensions, group, layout_profiles, canvas_regions,
                   selected_group>>

NextStandard == AddStandardSlide

SpecStandard == InitStandard /\ [][NextStandard]_vars

(***************************************************************************)
(* The layout designer (design_layout) with one group in the catalogue,    *)
(* and the presentation generated with the profiles it saved.  pc is       *)
(* "main" in the main window, "designer" while the designer is open and    *)
(* "done" when the slides of the group have been added.                    *)
(***************************************************************************)
canvas_width == 640
canvas_height == 360

\* the smallest extent of a drawn region
min_region_size == 20

RECURSIVE SortedStrings(_)
\* sorted(set(...)) of strings
SortedStrings(S) ==
    IF S = {} THEN <<>>
    ELSE LET first == CHOOSE x \in S : \A y \in S \ {x} : StrLess(x, y)
         IN  <<first>> \o SortedStrings(S \ {first})

\* the identifiers of the selected group, sorted; none without a group
identifiers_of_selected ==
    IF selected_group # "" /\ selected_group = group.label
    THEN SortedStrings({group.images[k].identifier : k \in 1..Len(group.images)})
    ELSE <<>>

\* canvas_regions.append({...})
create_region(regions, x1, y1, x2, y2, identifier) ==
    Append(regions, Region(identifier, x1, y1, x2, y2))

\* the most regions that are drawn by hand
MaxRegions == 2

\* the largest group that is laid out in the designer
MaxDesignGroup == 3

DesignIdentifiers == {"Spectrum", "UD"}

DesignGroups ==
    {[label |-> GroupLabel, images |-> GroupImages(identifiers, size)] :
        identifiers \in UNION {[1..len -> DesignIdentifiers] : len \in 1..MaxDesignGroup},
        size \in ImageSizes}

\* where the mouse button goes down and where it is released
PressedAt == {<<1, 1>>, <<0, 1>>}
ReleasedAt == {<<400, 360>>, <<400, 21>>, <<15, 15>>}

InitDesign ==
    /\ group \in DesignGroups
    /\ layout_profiles = <<>>
    /\ canvas_regions = <<>>
    /\ selected_group = ""
    /\ slides = None
    /\ pc = "main"
    /\ num_images = 0
    /\ layout = None
    /\ cell = None
    /\ dimensions = None
    /\ IdleCatalogue

DesignUnchanged ==
    UNCHANGED <<filename, extracted, entry, label, images, listing, num_images, layout,
                cell, dimensions, group>>

\* design_layout: the designer opens with an empty canvas and no group
DesignLayout ==
    /\ pc = "main"
    /\ pc' = "designer"
    /\ UNCHANGED <<canvas_regions, selected_group, layout_profiles, slides>>
    /\ DesignUnchanged

\* a group is chosen in the combobox
SelectGroup ==
    /\ pc = "designer"
    /\ selected_group' = group.label
    /\ UNCHANGED <<pc, canvas_regions, layout_profiles, slides>>
    /\ DesignUnchanged

\* end_draw: the rectangle dragged from (start_x, start_y) to the event
EndDraw(start_x, start_y, event_x, event_y, selected_id) ==
    /\ pc = "designer"
    /\ Len(canvas_regions) < MaxRegions
    /\ Len(identifiers_of_selected) > 1 => selected_id \in Range(identifiers_of_selected)
    /\ LET x1 == Min(start_x, event_x)
           y1 == Min(start_y, event_y)
           x2 == Max(start_x, event_x)
           y2 == Max(start_y, event_y)
           identifiers == identifiers_of_selected
           identifier == IF identifiers = <<>> THEN "Image"
                         ELSE IF Len(identifiers) > 1 THEN selected_id
                         ELSE identifiers[1]
       IN  canvas_regions' =
               \* if current_rect and start_x and start_y
               IF start_x = 0 \/ start_y = 0 THEN canvas_regions
               ELSE IF Abs(x2 - x1) < min_region_size \/ Abs(y2 - y1) < min_region_size
               THEN canvas_regions
               ELSE create_region(canvas_regions, x1, y1, x2, y2, identifier)
    /\ UNCHANGED <<pc, selected_group, layout_profiles, slides>>
    /\ DesignUnchanged

\* delete_selected_region
DeleteSelectedRegion(idx) ==
    /\ pc = "designer"
    /\ idx \in 1..Len(canvas_regions)
    /\ canvas_regions' = SubSeq(canvas_regions, 1, idx - 1)
                         \o SubSeq(canvas_regions, idx + 1, Len(canvas_regions))
    /\ UNCHANGED <<pc, selected_group, layout_profiles, slides>>
    /\ DesignUnchanged

\* clear_all_regions
ClearAllRegions ==
    /\ pc = "designer"
    /\ canvas_regions' = <<>>
    /\ UNCHANGED <<pc, selected_group, layout_profiles, slides>>
    /\ DesignUnchanged

\* the regions apply_quick_layout leaves on the canvas
quick_layout(layout_type) ==
    LET identifiers == identifiers_of_selected
        split == canvas_width \div 3
        only == IF identifiers # <<>> THEN identifiers[1] ELSE "Image"
    IN  IF selected_group = "" \/ selected_group # group.label THEN <<>>
        ELSE IF layout_type = "split_lr" /\ Len(identifiers) >= 2
        THEN create_region(
                 create_region(<<>>, 0, 0, canvas_width \div 2, canvas_height, identifiers[1]),
                 canvas_width \div 2, 0, canvas_width, canvas_height, identifiers[2])
        ELSE IF layout_type = "split_tb" /\ Len(identifiers) >= 2
        THEN create_region(
                 create_region(<<>>, 0, 0, canvas_width, canvas_height \div 2, identifiers[1]),
                 0, canvas_height \div 2, canvas_width, canvas_height, identifiers[2])
        ELSE IF layout_type = "thirds"
        THEN IF Len(identifiers) >= 2
             THEN create_region(
                      create_region(<<>>, 0, 0, split, canvas_height, identifiers[1]),
                      split, 0, canvas_width, canvas_height, identifiers[2])
             ELSE create_region(
                      create_region(<<>>, 0, 0, split, canvas_height, only),
                      split, 0, canvas_width, canvas_height, only)
        ELSE <<>>

\* apply_quick_layout
ApplyQuickLayout(layout_type) ==
    /\ pc = "designer"
    /\ canvas_regions' = quick_layout(layout_type)
    /\ UNCHANGED <<pc, selected_group, layout_profiles, slides>>
    /\ DesignUnchanged

\* the profile save_layout stores: pixels as parts of the canvas
saved_profile(regions) ==
    Profile("visual",
            [r \in 1..Len(regions) |->
                Region(regions[r].identifier,
                       Frac(regions[r].x1, canvas_width), Frac(regions[r].y1, canvas_height),
                       Frac(regions[r].x2, canvas_width), Frac(regions[r].y2, canvas_height))])

\* save_layout: stores the profile and closes the designer, or warns
SaveLayout ==
    /\ pc = "designer"
    /\ IF selected_group = "" \/ canvas_regions = <<>>
       THEN UNCHANGED <<pc, layout_profiles, canvas_regions, selected_group>>
       ELSE /\ layout_profiles' = (selected_group :> saved_profile(canvas_regions))
            \* designer_window.destroy()
            /\ pc' = "main"
            /\ canvas_regions' = <<>>
            /\ selected_group' = ""
    /\ UNCHANGED slides
    /\ DesignUnchanged

\* clear_layout
ClearLayout ==
    /\ pc = "designer"
    /\ layout_profiles' = IF selected_group # "" /\ selected_group \in DOMAIN layout_profiles
                          THEN <<>>
                          ELSE layout_profiles
    /\ UNCHANGED <<pc, canvas_regions, selected_group, slides>>
    /\ DesignUnchanged

\* the Close button
CloseDesigner ==
    /\ pc = "designer"
    /\ pc' = "main"
    /\ canvas_regions' = <<>>
    /\ selected_group' = ""
    /\ UNCHANGED <<layout_profiles, slides>>
    /\ DesignUnchanged

\* generate: the generator is given the profiles and adds the group's slides
Generate ==
    /\ pc = "main"
    /\ slides' = add_group_slide(group.label, group.images)
    /\ pc' = "done"
    /\ UNCHANGED <<canvas_regions, selected_group, layout_profiles>>
    /\ DesignUnchanged

NextDesign ==
    \/ DesignLayout
    \/ SelectGroup
    \/ \E pressed \in PressedAt, released \in ReleasedAt, selected_id \in DesignIdentifiers :
          EndDraw(pressed[1], pressed[2], released[1], released[2], selected_id)
    \/ \E idx \in 1..MaxRegions : DeleteSelectedRegion(idx)
    \/ ClearAllRegions
    \/ \E layout_type \in {"split_lr", "split_tb", "thirds"} : ApplyQuickLayout(layout_type)
    \/ SaveLayout
    \/ ClearLayout
    \/ CloseDesigner
    \/ Generate

SpecDesign == InitDesign /\ [][NextDesign]_vars

(***************************************************************************)
(* generate_presentation on the index as upload_images and the group       *)
(* editor left it, with no layout profile.  The index of the model keeps   *)
(* no image sizes: every image is IndexedSize pixels.  slides is the list  *)
(* of the groups in the order their slides were added, each [group_label,  *)
(* group_images, composed], where composed is what add_group_slide did.    *)
(***************************************************************************)
GenerateFiles == {"0002 UD.tif", "UD 2222.tif", "spectrum 2.tif"}

\* what the user types in the group editor before generating: a number and
\* a custom label
GenerateTyped == {"7", "Sample-A"}

IndexedSize == <<400, 100>>

\* the entries of the index as add_group_slide reads them
as_group_images(imgs) ==
    [k \in 1..Len(imgs) |->
        [id |-> imgs[k].id, identifier |-> imgs[k].metadata.identifier,
         width |-> IndexedSize[1], height |-> IndexedSize[2]]]

\* if not numerical_prefix: continue
is_grouped(img) ==
    img.metadata.numerical_prefix # None /\ img.metadata.numerical_prefix # ""

\* the groups of imgs under the key GroupKey, in the sorted order of the
\* keys, each with its entries in the order of imgs
groups_by(imgs, GroupKey(_)) ==
    LET grouped == SelectSeq(imgs, is_grouped)
        sorted_groups == SortedStrings({GroupKey(grouped[k]) : k \in 1..Len(grouped)})
    IN  [g \in 1..Len(sorted_groups) |->
            LET group_images ==
                    SelectSeq(grouped, LAMBDA img : GroupKey(img) = sorted_groups[g])
            IN  [group_label |-> sorted_groups[g],
                 group_images |-> group_images,
                 composed |-> add_group_slide(sorted_groups[g],
                                              as_group_images(group_images))]]

\* the presentation with one group for every group number
generate_presentation_by_number(imgs) ==
    groups_by(imgs, LAMBDA img : img.metadata.numerical_prefix)

\* generate_presentation with groups_to_include None
generate_presentation(imgs) ==
    groups_by(imgs, LAMBDA img : format_group_label(img.metadata.numerical_prefix,
                                                    img.metadata.identifier))

\* generate_presentation, once the index is as the user wants it
GeneratePresentation ==
    /\ pc = "input"
    /\ slides' = generate_presentation(images)
    /\ pc' = "generated"
    /\ UNCHANGED <<filename, extracted, entry, label, images, listing, num_images,
                   layout, cell, dimensions, group, layout_profiles, canvas_regions,
                   selected_group>>

NextGenerate ==
    \/ \E name \in GenerateFiles, content \in 1..NumContents :
          pc = "input" /\ UploadImage(name, content)
    \/ \E selected_ids \in SUBSET {images[k].id : k \in 1..Len(images)},
          typed \in GenerateTyped : pc = "input" /\ RegroupSelected(selected_ids, typed)
    \/ GeneratePresentation

SpecGenerate == InitCatalogue /\ [][NextGenerate]_vars

(***************************************************************************)
(* Vocabulary of the properties: what the filename holds, said without     *)
(* the matcher.                                                            *)
(***************************************************************************)
\* the name the classifier works on
Name == splitext_root(filename)

Taxonomy == Range(ALL_IDENTIFIERS)
Groupable == Range(GROUPABLE_IDENTIFIERS)

IsDigitAt(s, i) == i >= 1 /\ i <= Len(s) /\ At(s, i) \in Digits
IsSepAt(s, i) == i >= 1 /\ i <= Len(s) /\ At(s, i) \in Separators
AllDigits(s, i, j) == \A k \in i..j : IsDigitAt(s, k)
AllSeps(s, i, j) == \A k \in i..j : IsSepAt(s, k)
\* s[i..j] is a whole digit run: digits, with no digit on either side
IsDigitRun(s, i, j) ==
    i <= j /\ AllDigits(s, i, j) /\ ~IsDigitAt(s, i - 1) /\ ~IsDigitAt(s, j + 1)

\* id is written at position p of s, in any casing
WrittenAt(s, id, p) ==
    /\ p >= 1 /\ p + Len(id) - 1 <= Len(s)
    /\ \A k \in 1..Len(id) : LowerChar(At(s, p + k - 1)) = LowerChar(At(id, k))

\* what may follow an identifier: a separator, "(", a digit, a letter, the end
FollowedOk(s, i) ==
    i > Len(s) \/ LowerChar(At(s, i)) \in (FollowChars \cup LowerLetters)

\* id is a token at p: after the start or a separator, followed as FollowedOk says
IsTokenAt(s, id, p) ==
    /\ WrittenAt(s, id, p)
    /\ (p = 1 \/ IsSepAt(s, p - 1))
    /\ FollowedOk(s, p + Len(id))

OccursAsToken(s, id) == \E p \in 1..Len(s) : IsTokenAt(s, id, p)

TokensOf(s) == LET name == s IN {id \in Taxonomy : OccursAsToken(name, id)}

\* g is the digit run r, with zeros put before it up to a length of 4
IsPadded(g, r) ==
    /\ g # None
    /\ Len(g) >= Len(r)
    /\ SubSeq(g, Len(g) - Len(r) + 1, Len(g)) = r
    /\ \A k \in 1..(Len(g) - Len(r)) : At(g, k) = "0"
    /\ Len(g) > Len(r) => Len(g) = 4
    /\ Len(r) < 4 => Len(g) = 4

\* s[i..q-1] is what may stand between a 4-digit number and the identifier:
\* separators, then digits (a sequence number) or none, then separators or none
IsNoise(s, i, q) ==
    \E a \in (i + 1)..q, b \in (i + 1)..q :
        a <= b /\ AllSeps(s, i, a - 1) /\ AllDigits(s, a, b - 1) /\ AllSeps(s, b, q - 1)

\* id is written at q and followed as an identifier may be
NamedAt(s, id, q) == WrittenAt(s, id, q) /\ FollowedOk(s, q + Len(id))

\* rule (a): four digits, then noise, then the identifier
FourDigitNumbersBefore(s, id) ==
    {SubSeq(s, i, i + 3) : i \in
        {i \in 1..Len(s) :
            /\ AllDigits(s, i, i + 3)
            /\ \E q \in (i + 5)..Len(s) : NamedAt(s, id, q) /\ IsNoise(s, i + 4, q)}}

\* the spans <<i, j>> of the whole digit runs of s
DigitRunsOf(s) ==
    {ij \in (1..Len(s)) \X (1..Len(s)) : IsDigitRun(s, ij[1], ij[2])}

\* rule (b): a digit run, then separators, then the identifier
DigitRunsBefore(s, id) ==
    {SubSeq(s, ij[1], ij[2]) : ij \in
        {ij \in DigitRunsOf(s) :
            \E q \in (ij[2] + 2)..Len(s) :
                NamedAt(s, id, q) /\ AllSeps(s, ij[2] + 1, q - 1)}}

\* rule (c): the identifier, then separators, then a digit run
DigitRunsAfter(s, id) ==
    {SubSeq(s, ij[1], ij[2]) : ij \in
        {ij \in DigitRunsOf(s) :
            \E q \in 1..Len(s) :
                /\ WrittenAt(s, id, q)
                /\ q + Len(id) < ij[1]
                /\ AllSeps(s, q + Len(id), ij[1] - 1)}}

Done == pc = "done"

\* C1: when identifiers of different lengths occur as tokens in the filename,
\* the identifier returned is never the shorter one: it is a token of the
\* filename at least as long as every identifier that occurs as a token,
\* wherever in the string each of them stands.
C1_LongestIdentifierWins ==
    Done =>
        LET tokens == TokensOf(Name)
        IN  \A a \in tokens, b \in tokens :
                Len(a) < Len(b) =>
                    /\ extracted.identifier # a
                    /\ extracted.identifier \in tokens
                    /\ Len(extracted.identifier) >= Len(b)

\* a shorter identifier stands as a token before a longer one, and the longer
\* one was returned
C1_Witness ==
    /\ Done
    /\ extracted.identifier \in Taxonomy
    /\ LET name == Name
           b == extracted.identifier
       IN  \E a \in Taxonomy :
              /\ Len(a) < Len(b)
              /\ \E p \in 1..Len(name), q \in 1..Len(name) :
                    p < q /\ IsTokenAt(name, a, p) /\ IsTokenAt(name, b, q)
                    /\ ~\E r \in 1..p : IsTokenAt(name, b, r)

\* C4 (as claimed): a group number that is not null is exactly 4 digits.
C4_ExactlyFourDigits ==
    (Done /\ extracted.numerical_prefix # None) =>
        /\ Len(extracted.numerical_prefix) = 4
        /\ AllDigits(extracted.numerical_prefix, 1, 4)

\* C5: the result is (null, null, null) exactly when no identifier of the
\* taxonomy occurs as a token; otherwise the identifier is a member of the
\* taxonomy (its canonical spelling) and the matched text is not null; a
\* group number never comes without an identifier.
C5_TotalAndCanonical ==
    Done =>
        /\ (extracted = Triple(None, None, None)) <=> (TokensOf(Name) = {})
        /\ extracted.identifier # None =>
              /\ extracted.identifier \in Taxonomy
              /\ extracted.full_match # None
              /\ extracted.full_match # ""
        /\ extracted.identifier = None =>
              /\ extracted.numerical_prefix = None
              /\ extracted.full_match = None

\* an identifier written in another casing than the taxonomy's was returned
\* in the taxonomy's casing
C5_Witness ==
    /\ Done
    /\ extracted.identifier \in Taxonomy
    /\ LET name == Name
       IN  \E p \in 1..Len(name) :
              /\ IsTokenAt(name, extracted.identifier, p)
              /\ SubSeq(name, p, p + Len(extracted.identifier) - 1) # extracted.identifier

EndsWithNM(s, i, j) ==
    /\ IsSepAt(s, i - 1)
    /\ i <= j /\ AllDigits(s, i, j)
    /\ j + 2 <= Len(s) /\ At(s, j + 1) = "_"
    /\ AllDigits(s, j + 2, Len(s))

\* the last whole digit run of s stands at the very end of s
LastRunAtEnd(s, i) == IsDigitRun(s, i, Len(s))

\* C3 (as claimed): for a non-groupable identifier a name ending "<sep>N_M"
\* yields N padded to 4 digits (when no other digit run stands between the
\* identifier and N); for Spectrum and Spectra a name ending in a digit run
\* that is no "_M" suffix yields that run, and a name not ending in a digit
\* yields null; the group number is null or a whole digit run of the name,
\* padded to 4 digits.
C3_NonGroupableGroupNumber ==
    (Done /\ extracted.identifier \in (MapLike \cup SpectrumLike)) =>
        LET name == Name
            id == extracted.identifier
            g == extracted.numerical_prefix
        IN  /\ \A i \in 1..Len(name), j \in 1..Len(name) :
                  (/\ EndsWithNM(name, i, j)
                   /\ \E q \in 1..i : /\ IsTokenAt(name, id, q)
                                      /\ ~\E k \in (q + Len(id))..(i - 1) :
                                            IsDigitAt(name, k))
                  => IsPadded(g, SubSeq(name, i, j))
            /\ id \in SpectrumLike =>
                  /\ \A i \in 1..Len(name) :
                        (/\ LastRunAtEnd(name, i)
                         /\ ~(IsDigitAt(name, i - 2) /\ At(name, i - 1) = "_"))
                        => IsPadded(g, SubSeq(name, i, Len(name)))
                  /\ ~IsDigitAt(name, Len(name)) => g = None
            /\ g # None =>
                  \E ij \in DigitRunsOf(name) : IsPadded(g, SubSeq(name, ij[1], ij[2]))

(***************************************************************************)
(* format_group_label and the group editor                                 *)
(***************************************************************************)
FourDigits(g) == g # None /\ Len(g) = 4 /\ AllDigits(g, 1, 4)

RECURSIVE WithoutLeadingZeros(_)
\* the decimal numeral of the number that the digits g write
WithoutLeadingZeros(g) ==
    IF Len(g) > 1 /\ At(g, 1) = "0" THEN WithoutLeadingZeros(SubSeq(g, 2, Len(g)))
    ELSE g

\* the number that four digits write
ValueOf(g) ==
    1000 * DigitValue[At(g, 1)] + 100 * DigitValue[At(g, 2)]
        + 10 * DigitValue[At(g, 3)] + DigitValue[At(g, 4)]

\* C6: the label is empty for a null or empty group number; for exactly 4
\* digits it is "SPEC" and the number for Spectrum and Spectra, "MAP" and the
\* number for Map, Maps and Electron Image, and the 4 digits unchanged for
\* every other identifier, null included; any other group number is returned
\* verbatim.
C6_FormatContract ==
    Done =>
        LET g == entry.numerical_prefix
            id == entry.identifier
        IN  IF g = None \/ g = "" THEN label = ""
            ELSE IF FourDigits(g)
            THEN IF id \in {"Spectrum", "Spectra"}
                 THEN label = "SPEC" \o WithoutLeadingZeros(g)
                 ELSE IF id \in {"Map", "Maps", "Electron Image"}
                 THEN label = "MAP" \o WithoutLeadingZeros(g)
                 ELSE label = g
            ELSE label = g

\* 4 digits with leading zeros were formatted for an Electron Image
C6_Witness ==
    /\ Done
    /\ entry.numerical_prefix = "0020"
    /\ entry.identifier = "Electron Image"
    /\ label = "MAP20"

\* C8: for an identifier of the taxonomy and 4 digits g, the digits of the
\* label (after the SPEC or MAP prefix, or the whole label) read as an
\* integer give the number that g writes.
C8_IntegerRoundTrip ==
    (Done /\ entry.identifier \in Taxonomy /\ FourDigits(entry.numerical_prefix)) =>
        LET id == entry.identifier
            digits == IF id \in {"Spectrum", "Spectra"} THEN SubSeq(label, 5, Len(label))
                      ELSE IF id \in {"Map", "Maps", "Electron Image"}
                      THEN SubSeq(label, 4, Len(label))
                      ELSE label
        IN  /\ isdigit(digits)
            /\ int(digits) = ValueOf(entry.numerical_prefix)

\* 4 digits with zeros on both sides were formatted for Spectra
C8_Witness ==
    /\ Done
    /\ entry.numerical_prefix = "0200"
    /\ entry.identifier = "Spectra"
    /\ label = "SPEC200"

\* C7: for the group number stored in an entry and every identifier, the
\* label, parsed back by the rule of the group editor and formatted again
\* for the same identifier, is the label.
C7_FormatIdempotent ==
    \A id \in Taxonomy \cup {None} :
        LET L == format_group_label(entry.numerical_prefix, id)
            parsed == new_group_of(L)
        IN  /\ parsed # Rejected
            /\ format_group_label(parsed, id) = L

\* the editor stored "0022" in a Spectrum entry, which no file of the model
\* starts with: the label "SPEC22" parses back to the digits stored
C7_Witness ==
    /\ entry.identifier = "Spectrum"
    /\ entry.numerical_prefix = "0022"
    /\ label = "SPEC22"
    /\ new_group_of(label) = entry.numerical_prefix

(***************************************************************************)
(* get_sort_key and get_all_images                                         *)
(***************************************************************************)
\* the category of an identifier
CategoryOf(identifier) ==
    IF identifier \in Groupable THEN 0
    ELSE IF identifier \in {"Map", "Maps", "Electron Image"} THEN 1
    ELSE IF identifier \in {"Spectrum", "Spectra"} THEN 2
    ELSE 3

\* C9: of two entries of the catalogue the one of the lower category has the
\* lower sort key, whatever their group numbers and filenames, and the
\* listing of get_all_images never has a higher category before a lower one.
C9_CategoryDominates ==
    /\ \A a \in 1..Len(images), b \in 1..Len(images) :
          CategoryOf(images[a].metadata.identifier)
              < CategoryOf(images[b].metadata.identifier)
          => TupleLess(get_sort_key(images[a]), get_sort_key(images[b]))
    /\ \A i \in 1..Len(listing), j \in 1..Len(listing) :
          i < j => CategoryOf(listing[i].metadata.identifier)
                      <= CategoryOf(listing[j].metadata.identifier)

\* a Map image of group "0002" was added before a groupable image of a
\* greater group string, and the listing puts the groupable image first
C9_Witness ==
    /\ Len(images) = 2 /\ Len(listing) = 2
    /\ images[1].metadata.identifier = "Map"
    /\ images[1].metadata.numerical_prefix = "0002"
    /\ images[2].metadata.identifier = "UD"
    /\ StrLess("0002", images[2].metadata.numerical_prefix)
    /\ listing = <<images[2], images[1]>>

\* C10 (as claimed): of two entries of one category whose group numbers are
\* digits, the one whose group number is the smaller number has the smaller
\* sort key.
C10_NumericOrderOfGroups ==
    \A a \in 1..Len(images), b \in 1..Len(images) :
        LET ga == images[a].metadata.numerical_prefix
            gb == images[b].metadata.numerical_prefix
        IN  (/\ CategoryOf(images[a].metadata.identifier)
                    = CategoryOf(images[b].metadata.identifier)
             /\ ga # None /\ gb # None
             /\ isdigit(ga) /\ isdigit(gb)
             /\ int(ga) < int(gb))
            => TupleLess(get_sort_key(images[a]), get_sort_key(images[b]))

NoGroup(img_info) ==
    img_info.metadata.numerical_prefix = None \/ img_info.metadata.numerical_prefix = ""

\* C11 (as claimed): within one category an entry with no group number has a
\* greater sort key than every entry with a group number, and the listing
\* never has an ungrouped entry before a grouped one of its category.
C11_UngroupedLast ==
    /\ \A a \in 1..Len(images), b \in 1..Len(images) :
          (/\ CategoryOf(images[a].metadata.identifier)
                 = CategoryOf(images[b].metadata.identifier)
           /\ NoGroup(images[a]) /\ ~NoGroup(images[b]))
          => TupleLess(get_sort_key(images[b]), get_sort_key(images[a]))
    /\ \A i \in 1..Len(listing), j \in 1..Len(listing) :
          (/\ i < j
           /\ CategoryOf(listing[i].metadata.identifier)
                 = CategoryOf(listing[j].metadata.identifier))
          => ~(NoGroup(listing[i]) /\ ~NoGroup(listing[j]))

(***************************************************************************)
(* calculate_grid_layout                                                   *)
(***************************************************************************)
\* the grids of 1 to 20 images
GridTable ==
    <<<<1, 1>>, <<1, 2>>, <<2, 2>>, <<2, 2>>, <<2, 3>>, <<2, 3>>, <<3, 3>>, <<3, 3>>,
      <<3, 3>>, <<3, 4>>, <<3, 4>>, <<3, 4>>, <<4, 4>>, <<4, 4>>, <<4, 4>>, <<4, 4>>,
      <<4, 5>>, <<4, 5>>, <<4, 5>>, <<4, 5>>>>

\* C12: the grid of n images is the grid of the table for n from 0 to 20;
\* above 20 the columns are the least c with c * c >= n and the rows the
\* least r with r * c >= n.
C12_GridTable ==
    Done =>
        IF num_images = 0 THEN layout = <<0, 0>>
        ELSE IF num_images <= 20 THEN layout = GridTable[num_images]
        ELSE LET rows == layout[1]
                 cols == layout[2]
             IN  /\ cols * cols >= num_images
                 /\ (cols - 1) * (cols - 1) < num_images
                 /\ rows * cols >= num_images
                 /\ (rows - 1) * cols < num_images

\* 21 images got 5 rows of 5 columns
C12_Witness == Done /\ num_images = 21 /\ layout = <<5, 5>>

\* C13: for n > 0 the grid has at least n cells, and every index below n has
\* its row idx // cols below rows and its column idx % cols below cols.
C13_GridHoldsAll ==
    (Done /\ num_images > 0) =>
        LET rows == layout[1]
            cols == layout[2]
        IN  /\ cols > 0
            /\ rows * cols >= num_images
            /\ \A idx \in 0..(num_images - 1) :
                  idx \div cols < rows /\ idx % cols < cols

\* 23 images got a grid of 25 cells, the last image in the last row
C13_Witness ==
    /\ Done /\ num_images = 23
    /\ layout[1] * layout[2] = 25
    /\ (num_images - 1) \div layout[2] = layout[1] - 1

\* the height of the cell, a label reservation taken off once
CellRoom == FSub(cell_size(cell)[2], label_reservation)

Fitted == pc = "done" /\ dimensions # ZeroDivisionError

\* C14: whatever the shape of the grid, the aspect ratio and the size of
\* the cell, the fitted image has width / height equal to the aspect
\* ratio, and its height is at most the height of the cell less the height
\* of the label and the gap under it.
C14_FitKeepsRatioAndRoom ==
    Fitted =>
        /\ dimensions[2].n # 0
        /\ FDiv(dimensions[1], dimensions[2]) = cell.aspect_ratio
        /\ FLeq(dimensions[2], CellRoom)

\* a grid cell whose image is first fitted by width and then clamped
C14_Witness ==
    /\ Fitted
    /\ cell.kind = "grid" /\ cell.rows = 2 /\ cell.cols = 2
    /\ cell.aspect_ratio = Frac(2, 1)
    /\ dimensions = <<Frac(85, 1), Frac(85, 2)>>

\* the image is constrained by the height of its cell
HeightConstrained ==
    FLess(cell.aspect_ratio, FDiv(cell_size(cell)[1], CellRoom))

\* C15: in the grid branch, with cell_h the available height over the rows
\* and cell_w the available width over the columns, the image is
\* constrained by height exactly when cell_w / (cell_h - label_h -
\* label_gap) exceeds its aspect ratio, and its height is then cell_h less
\* one label reservation and its width that height times the aspect ratio.
C15_OneReservation ==
    (Fitted /\ cell.kind = "grid") =>
        /\ HeightConstrained <=> dimensions[2] = CellRoom
        /\ HeightConstrained => dimensions[1] = FMul(dimensions[2], cell.aspect_ratio)


Composes == pc = "done"

\* the type of the profile stored for the group, "auto" when there is none
StoredType ==
    IF group.label \in DOMAIN layout_profiles /\ layout_profiles[group.label].type # None
    THEN layout_profiles[group.label].type
    ELSE "auto"

AllSpectrum == \A k \in 1..Len(group.images) : group.images[k].identifier \in SpectrumLike
NoSpectrum == \A k \in 1..Len(group.images) : group.images[k].identifier \notin SpectrumLike

\* C16: add_group_slide takes the branch of the profile stored for the
\* group whenever its type is visual, grid, horizontal or mixed; with no
\* profile or an auto profile it takes the horizontal branch when every
\* entry is spectrum-like, the grid branch when none is, and the mixed
\* branch when both kinds are present.
C16_BranchSelection ==
    Composes =>
        /\ StoredType \in {"visual", "grid", "horizontal", "mixed"}
              => slides.branch = StoredType
        /\ StoredType = "auto" =>
              slides.branch = IF AllSpectrum THEN "horizontal"
                              ELSE IF NoSpectrum THEN "grid"
                              ELSE "mixed"
        \* the slides are drawn by the branch taken; a visual profile without
        \* regions draws the grid
        /\ \A s \in 1..Len(slides.slides) :
              slides.slides[s].layout =
                  IF slides.branch = "visual"
                        /\ layout_profiles[group.label].regions = <<>>
                  THEN "grid" ELSE slides.branch

\* a group of grid entries only, drawn in horizontal slices because its
\* profile says so
C16_Witness ==
    /\ Composes
    /\ NoSpectrum
    /\ StoredType = "horizontal"
    /\ slides.branch = "horizontal"
    /\ Len(slides.slides) = 2


RECURSIVE SeqSum(_)
SeqSum(s) == IF s = <<>> THEN 0 ELSE Head(s) + SeqSum(Tail(s))

\* the ids of the pictures of slide s that lie in the area, in order
IdsIn(s, area) ==
    LET placed == slides.slides[s].placed
        kept == SelectSeq(placed, LAMBDA p : p.area = area)
    IN  [k \in 1..Len(kept) |-> kept[k].id]

\* the ids of the pictures of all slides that lie in the area, in order
AllIdsIn(area) == Flatten([s \in 1..Len(slides.slides) |-> IdsIn(s, area)])

\* the ids of the entries of the group that satisfy Test, in order
GroupIds(Test(_)) ==
    LET kept == SelectSeq(group.images, Test)
    IN  [k \in 1..Len(kept) |-> kept[k].id]

BothKinds == ~AllSpectrum /\ ~NoSpectrum

Mixes == pc = "done" /\ slides.branch = "mixed"

\* C17: the mixed branch with s spectrum entries and o other entries emits
\* max(ceil(o / 2), ceil(s / 3)) slides; slide k (from 0) holds the other
\* entries 2k and 2k + 1 and the spectrum entries 3k to 3k + 2, as far as
\* they exist, so that no entry is on two slides and a side that has run
\* out stays empty.
C17_MixedBatches ==
    Mixes =>
        LET spectrum_ids == AllIdsIn("right")
            other_ids == AllIdsIn("left")
            s == Len(spectrum_ids)
            o == Len(other_ids)
        IN  /\ BothKinds => /\ spectrum_ids = GroupIds(is_spectrum)
                            /\ other_ids = GroupIds(is_other)
            /\ Len(slides.slides) = Max(ceil_div(o, 2), ceil_div(s, 3))
            /\ \A k \in 0..(Len(slides.slides) - 1) :
                  /\ IdsIn(k + 1, "left") = SubSeq(other_ids, 2 * k + 1, Min(2 * k + 2, o))
                  /\ IdsIn(k + 1, "right") = SubSeq(spectrum_ids, 3 * k + 1, Min(3 * k + 3, s))
                  /\ Len(slides.slides[k + 1].placed)
                        = Len(IdsIn(k + 1, "left")) + Len(IdsIn(k + 1, "right"))
            /\ \A j, k \in 1..Len(slides.slides) : \A p \in 1..Len(slides.slides[j].placed) :
                  \A q \in 1..Len(slides.slides[k].placed) :
                      slides.slides[j].placed[p].id = slides.slides[k].placed[q].id
                          => (j = k /\ p = q)

\* five spectrum entries and one other entry: two slides, the second with
\* an empty left side
C17_Witness ==
    /\ Mixes
    /\ Len(GroupIds(is_spectrum)) = 5
    /\ Len(GroupIds(is_other)) = 1
    /\ Len(slides.slides) = 2
    /\ IdsIn(2, "left") = <<>>
    /\ Len(IdsIn(2, "right")) = 2


Slices == pc = "done" /\ slides.branch = "horizontal"

\* every entry of the group, by id, in catalogue order
AllGroupIds == [k \in 1..Len(group.images) |-> group.images[k].id]

\* C18: the horizontal branch over n >= 1 entries emits ceil(n / 3) slides
\* of at most 3 entries each, in input order and with every entry on
\* exactly one slide; on a slide of k entries every slice is the available
\* height / k high and slice i (from 0) starts at margin_top + i times that
\* height.
C18_HorizontalSlices ==
    Slices =>
        LET n == Len(group.images)
        IN  /\ Len(slides.slides) = ceil_div(n, 3)
            /\ AllIdsIn("slice") = AllGroupIds
            /\ \A s \in 1..Len(slides.slides) :
                  LET placed == slides.slides[s].placed
                      k == Len(placed)
                      slice_height == FDiv(Float(available_height), Float(k))
                  IN  /\ k \in 1..3
                      /\ IdsIn(s, "slice") = SubSeq(AllGroupIds, 3 * s - 2, Min(3 * s, n))
                      /\ Len(IdsIn(s, "slice")) = k
                      /\ \A i \in 0..(k - 1) :
                            /\ placed[i + 1].y
                                  = FAdd(Float(margin_top), FMul(Float(i), slice_height))
                            /\ FLeq(FAdd(placed[i + 1].height, label_reservation),
                                    slice_height)

\* five entries: a slide of three slices and a slide of two, whose second
\* slice starts half the available height below the top margin
C18_Witness ==
    /\ Slices
    /\ Len(group.images) = 5
    /\ Len(slides.slides) = 2
    /\ IdsIn(2, "slice") = <<4, 5>>
    /\ slides.slides[2].placed[2].y = Frac(2 * margin_top + available_height, 2)


Generated == pc = "done" /\ ~slides.raised

\* the pictures of all slides
AllPlaced == Flatten([s \in 1..Len(slides.slides) |-> slides.slides[s].placed])

\* the number of pictures that show the entry
TimesPlaced(id) == Cardinality({p \in 1..Len(AllPlaced) : AllPlaced[p].id = id})

\* C19: whatever the branch (grid, horizontal, mixed, visual, also a forced
\* mixed layout of a group without spectrum entries), every entry of a
\* non-empty group is placed in exactly one rectangle: none is dropped and
\* none is placed twice.
C19_EveryEntryOnce ==
    Generated => \A k \in 1..Len(group.images) : TimesPlaced(group.images[k].id) = 1

Overlap(p, q) ==
    /\ FLess(p.x, FAdd(q.x, q.width))
    /\ FLess(q.x, FAdd(p.x, p.width))
    /\ FLess(p.y, FAdd(q.y, q.height))
    /\ FLess(q.y, FAdd(p.y, p.height))

\* the rectangle lies on the slide within the margins
InsideMargins(p) ==
    /\ FLeq(Float(0), p.width)
    /\ FLeq(Float(0), p.height)
    /\ FLeq(Float(margin_left), p.x)
    /\ FLeq(Float(margin_top), p.y)
    /\ FLeq(FAdd(p.x, p.width), Float(slide_width - margin_right))
    /\ FLeq(FAdd(p.y, p.height), Float(slide_height - margin_bottom))

\* C20: on every slide of every branch, for every size of group, every
\* positive aspect ratio and every profile whose regions lie inside
\* [0, 1], no two image rectangles overlap and every image rectangle lies
\* inside the slide less its margins.
C20_NoOverlapInsideMargins ==
    Generated =>
        \A s \in 1..Len(slides.slides) :
            LET placed == slides.slides[s].placed
            IN  /\ \A p \in 1..Len(placed) : InsideMargins(placed[p])
                /\ \A p, q \in 1..Len(placed) : p # q => ~Overlap(placed[p], placed[q])

(***************************************************************************)
(* The grid branch, picture by picture                                     *)
(***************************************************************************)
\* the cell of the k-th picture of a grid of n pictures: [x, y, width, height]
GridCellOf(k, n) ==
    LET grid == calculate_grid_layout(n)
        rows == grid[1]
        cols == grid[2]
        cell_width == FDiv(Float(available_width), Float(cols))
        cell_height == FDiv(Float(available_height), Float(rows))
    IN  [x |-> FAdd(Float(margin_left), FMul(Float((k - 1) % cols), cell_width)),
         y |-> FAdd(Float(margin_top), FMul(Float((k - 1) \div cols), cell_height)),
         width |-> cell_width,
         height |-> cell_height]

\* the picture p with its label slot below lies inside the cell c
InsideCell(p, c) ==
    /\ FLeq(c.x, p.x)
    /\ FLeq(FAdd(p.x, p.width), FAdd(c.x, c.width))
    /\ FLeq(c.y, p.y)
    /\ FLeq(FAdd(FAdd(p.y, p.height), label_reservation), FAdd(c.y, c.height))

PositiveSize(p) == FLess(Float(0), p.width) /\ FLess(Float(0), p.height)

\* C21: on the grid branch with the default canvas, for every number of
\* images and every aspect ratio, each picture has a strictly positive
\* width and height, and the picture with its label slot (the gap and the
\* label height below it) lies inside its own grid cell.
C21_GridPictureInsideCell ==
    (pc = "done" /\ slides.branch = "grid") =>
        \A s \in 1..Len(slides.slides) :
            \A k \in 1..Len(slides.slides[s].placed) :
                LET p == slides.slides[s].placed[k]
                IN  /\ PositiveSize(p)
                    /\ InsideCell(p, GridCellOf(k, Len(group.images)))

(***************************************************************************)
(* The visual branch without a region for any entry; images without a      *)
(* size                                                                    *)
(***************************************************************************)
\* the profile stored for the group is a visual one
VisualProfile ==
    /\ group.label \in DOMAIN layout_profiles
    /\ layout_profiles[group.label].type = "visual"

\* no region of the stored profile names the identifier of an entry; so it
\* is when the profile has no regions
NoRegionMatches ==
    \A r \in 1..Len(layout_profiles[group.label].regions) :
        region_images_of(layout_profiles[group.label].regions[r], group.images) = <<>>

\* C22: a visual profile with no regions, or with regions none of whose
\* identifiers matches any entry of the group, produces the placements of
\* the grid branch over all the entries.
C22_VisualWithoutMatchDrawsGrid ==
    (Composes /\ VisualProfile /\ NoRegionMatches) =>
        /\ ~slides.raised
        /\ slides.slides = add_standard_slide(group.images)

\* some image of the group has a height or a width of zero
DegenerateSize ==
    \E k \in 1..Len(group.images) :
        group.images[k].height = 0 \/ group.images[k].width = 0

\* the pictures placed for the entries whose height or width is zero
DegeneratePlaced ==
    {p \in Range(AllPlaced) :
        \E k \in 1..Len(group.images) :
            /\ group.images[k].id = p.id
            /\ (group.images[k].height = 0 \/ group.images[k].width = 0)}

\* C24: for an image whose height or width is zero every branch (grid,
\* visual, horizontal, both sides of mixed) computes the placement without
\* raising and with the aspect ratio 1.0.
C24_DegenerateImageIsSquare ==
    (Composes /\ DegenerateSize) =>
        /\ ~slides.raised
        /\ \A p \in DegeneratePlaced : p.width = p.height

(***************************************************************************)
(* Regions whose identifier is not of the taxonomy                         *)
(***************************************************************************)
\* the stored profile of the group has a region named outside the taxonomy
RegionOutsideTaxonomy ==
    /\ group.label \in DOMAIN layout_profiles
    /\ \E r \in 1..Len(layout_profiles[group.label].regions) :
          layout_profiles[group.label].regions[r].identifier \notin Range(ALL_IDENTIFIERS)

\* C25: composing with a profile that has a region whose identifier is not
\* in the taxonomy is rejected with an error; the region is not silently
\* skipped and no slide is produced.
C25_UnknownRegionRejected ==
    (Composes /\ RegionOutsideTaxonomy) =>
        /\ slides.raised
        /\ slides.slides = <<>>

(***************************************************************************)
(* The group without entries                                               *)
(***************************************************************************)
\* C26: composing a group with zero entries adds no slide and raises no
\* error, whatever the profile stored for it: none, auto, visual, grid,
\* horizontal or mixed.
C26_EmptyGroupAddsNothing ==
    (Composes /\ group.images = <<>>) =>
        /\ ~slides.raised
        /\ slides.slides = <<>>

\* the empty group composed under a visual profile that has regions
C26_Witness ==
    /\ Composes
    /\ group.images = <<>>
    /\ VisualProfile
    /\ layout_profiles[group.label].regions # <<>>
    /\ slides.slides = <<>>

(***************************************************************************)
(* The index: identifiers, ids and hashes                                  *)
(***************************************************************************)
\* the type editor is left with nothing or with a type outside the taxonomy
InvalidType(chosen) ==
    strip(chosen) = "" \/ strip(chosen) \notin Range(ALL_IDENTIFIERS)

C28_IdsDistinct ==
    \A i, j \in 1..Len(images) : i # j => images[i].id # images[j].id

\* C29: after any sequence of add_image and remove_image no two entries
\* have the same content hash; add_image of a file whose hash is indexed
\* returns the entry that has it and leaves the index unchanged, also when
\* the file has another name.
C29_HashesDistinct ==
    /\ [](\A i, j \in 1..Len(images) : i # j => images[i].hash # images[j].hash)
    /\ [][\A name \in IndexFiles, content \in 1..NumContents :
             (IndexAdd(name, content) /\ content \in IndexedHashes)
                 => /\ images' = images
                    /\ entry' \in Range(images)
                    /\ entry'.hash = content]_vars

\* add_image has returned an entry of the index for a file of another name
C29_Witness ==
    /\ pc = "add_image"
    /\ entry \in Range(images)
    /\ entry.filename # filename

(***************************************************************************)
(* generate_presentation: the order within a group, the kinds in a group   *)
(***************************************************************************)
Generates == pc = "generated"

\* C23: the entries of every group that generate_presentation hands to
\* add_group_slide are in ascending order of get_sort_key, whatever the
\* order in which they were added to the index, so that the grid fills its
\* cells row by row in that order.
C23_GroupsInSortOrder ==
    Generates =>
        \A g \in 1..Len(slides) :
            \A i, j \in 1..Len(slides[g].group_images) :
                i < j => ~TupleLess(get_sort_key(slides[g].group_images[j]),
                                    get_sort_key(slides[g].group_images[i]))

HasSpectrum(group_images) ==
    \E k \in 1..Len(group_images) : group_images[k].metadata.identifier \in SpectrumLike

HasOther(group_images) ==
    \E k \in 1..Len(group_images) : group_images[k].metadata.identifier \notin SpectrumLike

\* C30: generate_presentation groups by the formatted label, so a group
\* whose entries all have group numbers of four digits never holds both a
\* spectrum-like entry and another one; without a profile the mixed branch
\* is taken only for groups under a custom label, which is the group
\* number of every entry of the group and not one of four digits.
C30_MixedOnlyUnderCustomLabel ==
    Generates =>
        \A g \in 1..Len(slides) :
            LET group_images == slides[g].group_images
            IN  /\ (\A k \in 1..Len(group_images) :
                       FourDigits(group_images[k].metadata.numerical_prefix))
                      => ~(HasSpectrum(group_images) /\ HasOther(group_images))
                /\ slides[g].composed.branch = "mixed"
                      => /\ ~FourDigits(slides[g].group_label)
                         /\ \A k \in 1..Len(group_images) :
                               group_images[k].metadata.numerical_prefix
                                   = slides[g].group_label

\* a spectrum and an image of group 0002 put under one custom label and
\* drawn on a mixed slide
C30_Witness ==
    /\ Generates
    /\ \E g \in 1..Len(slides) :
          /\ slides[g].composed.branch = "mixed"
          /\ HasSpectrum(slides[g].group_images)
          /\ HasOther(slides[g].group_images)
          /\ \E k \in 1..Len(slides[g].group_images) :
                FourDigits(ClassifiedAs[slides[g].group_images[k].filename].numerical_prefix)

====
